---- MODULE Spec2Model ----
(***************************************************************************)
(* Seat-relocation engine of the seating-chart application: the seat       *)
(* collection and roster (SeatingData), the selection set, the bounded     *)
(* undo history, single-seat assignment and the offset-based multi-seat    *)
(* move (SeatingApp).                                                      *)
(*                                                                         *)
(* A seat id is the string `${row}-${col}`; it is modelled by the pair     *)
(* <<row, col>>, which is equal for two seats exactly when the strings     *)
(* are.  A seat's student field is an object reference: it is modelled by  *)
(* the student's uuid plus the flag `linked`, TRUE when the reference is   *)
(* the object held in the students array and FALSE when it is a copy made  *)
(* by JSON.parse(JSON.stringify(..)).                                      *)
(***************************************************************************)
EXTENDS Integers, Sequences, FiniteSets, TLC

\* ---------------------------------------------------------------- bounds
Students == {"A", "B", "C"}          \* uuids of the roster
UnknownUuid == "Z"                   \* a uuid that no student ever had
MaxRows == 2                         \* rows at start and at most (6 and 15 in the program)
MaxCols == 2                         \* cols at start and at most (8 and 12 in the program)
MaxOps == 2                          \* operations called per run
MaxSelSteps == 2                     \* selection changes per run
MaxRecords == 7                      \* successive addToHistory calls that are logged
MaxUndos == 6                        \* successive undo calls that are logged
MaxAssignments == 2                  \* assignments of one AI layout
MaxCoordLen == 4                     \* characters of a coordinate string
MaxLine == 3                         \* rows and cols of the grid that is rotated
MAX_HISTORY_SIZE == 5
DRAG_THRESHOLD == 5

VARIABLES rows, cols, seats, students, history, historyIndex, selectedSeats,
          nOps, nSel, last, recLog, undoLog, dragData, lastPlan, returned,
          isDragging, isSelecting, boxSeats, coordCall, dragStartSelection

vars == <<rows, cols, seats, students, history, historyIndex, selectedSeats,
          nOps, nSel, last, recLog, undoLog, dragData, lastPlan, returned,
          isDragging, isSelecting, boxSeats, coordCall, dragStartSelection>>

\* ------------------------------------------------------------ data model
NoStudent == [uuid |-> "", linked |-> FALSE]      \* seat.student === null
NoSeat == <<>>                                    \* student.seatId === null
NoEntry == [action |-> "none", data |-> <<>>]     \* undo()/redo() returning null
NoDrag == [type |-> "none"]                       \* dragData === null
NoPlan == [call |-> "none"]                       \* checkMultiDropTarget not called yet
NoCoordCall == [fn |-> "none"]             \* no coordinate function called yet
NoReturn == [entry |-> NoEntry, from |-> -1]      \* SeatingData.undo / redo not called yet

RosterRef(u) == [uuid |-> u, linked |-> TRUE]

SeatId(r, c) == <<r, c>>

NewSeat(r, c, st, del) ==
    [id |-> SeatId(r, c), row |-> r, col |-> c, student |-> st, isDeleted |-> del]

\* index of the first seat with the given id, 0 when there is none
FindSeatById(ss, sid) ==
    IF \E i \in DOMAIN ss : ss[i].id = sid
    THEN CHOOSE i \in DOMAIN ss : ss[i].id = sid /\ \A j \in 1..(i-1) : ss[j].id # sid
    ELSE 0

\* index of the first seat whose student has the given uuid, 0 when none
FindSeatOfStudent(ss, u) ==
    IF \E i \in DOMAIN ss : ss[i].student # NoStudent /\ ss[i].student.uuid = u
    THEN CHOOSE i \in DOMAIN ss :
            /\ ss[i].student # NoStudent /\ ss[i].student.uuid = u
            /\ \A j \in 1..(i-1) : ~(ss[j].student # NoStudent /\ ss[j].student.uuid = u)
    ELSE 0

\* index of the first seat at (r, c), 0 when none
FindSeatAt(ss, r, c) ==
    IF \E i \in DOMAIN ss : ss[i].row = r /\ ss[i].col = c
    THEN CHOOSE i \in DOMAIN ss :
            /\ ss[i].row = r /\ ss[i].col = c
            /\ \A j \in 1..(i-1) : ~(ss[j].row = r /\ ss[j].col = c)
    ELSE 0

\* SeatingData.initializeSeats: a dense row-major collection that keeps the
\* student and the deleted flag of every old seat with the same id
InitializeSeats(old, rws, cls) ==
    [k \in 1..(rws * cls) |->
        LET r == (k - 1) \div cls
            c == (k - 1) % cls
            e == FindSeatById(old, SeatId(r, c))
            \* existingSeatData is keyed by id: the last old seat with the id wins
            el == IF e = 0 THEN 0
                  ELSE CHOOSE i \in DOMAIN old : old[i].id = SeatId(r, c)
                          /\ \A j \in (i+1)..Len(old) : old[j].id # SeatId(r, c)
        IN  IF el = 0 THEN NewSeat(r, c, NoStudent, FALSE)
            ELSE NewSeat(r, c, old[el].student, old[el].isDeleted)]

\* SeatingUtils.deepClone applied to the seat collection: every student
\* reference becomes a copy
DeepClone(ss) ==
    [i \in DOMAIN ss |->
        IF ss[i].student = NoStudent THEN ss[i]
        ELSE [ss[i] EXCEPT !.student.linked = FALSE]]

\* SeatingData.relinkStudentReferences: a seat whose student's uuid is in the
\* students array gets the array's object; any other seat is left as it is
RelinkStudentReferences(ss, sts) ==
    [i \in DOMAIN ss |->
        IF ss[i].student # NoStudent /\ ss[i].student.uuid \in DOMAIN sts
        THEN [ss[i] EXCEPT !.student = RosterRef(ss[i].student.uuid)]
        ELSE ss[i]]

\* SeatingApp.syncStudentSeatIds: null every cache, then scan the seats in
\* order and write seat.id into the object the seat references
RECURSIVE SyncScan(_, _, _)
SyncScan(sts, ss, i) ==
    IF i > Len(ss) THEN sts
    ELSE LET st == ss[i].student
         IN  IF st # NoStudent /\ st.linked /\ st.uuid \in DOMAIN sts
             THEN SyncScan([sts EXCEPT ![st.uuid] = ss[i].id], ss, i + 1)
             ELSE SyncScan(sts, ss, i + 1)

SyncStudentSeatIds(sts, ss) ==
    SyncScan([u \in DOMAIN sts |-> NoSeat], ss, 1)

\* --------------------------------------------------------------- history
Entry(action, ss) == [action |-> action, data |-> DeepClone(ss)]

\* addToHistory as it would be if the forward entries were kept
AddToHistory_KeepsForward(h, idx, action, ss) ==
    LET pushed == Append(h, Entry(action, ss))
    IN  IF Len(pushed) > MAX_HISTORY_SIZE
        THEN LET removeCount == Len(pushed) - MAX_HISTORY_SIZE
                 kept == SubSeq(pushed, removeCount + 1, Len(pushed))
             IN  <<kept, Len(kept) - 1>>
        ELSE <<pushed, idx + 1>>

\* addToHistory as it would be if nothing were evicted
AddToHistory_NoEviction(h, idx, action, ss) ==
    <<Append(SubSeq(h, 1, idx + 1), Entry(action, ss)), idx + 1>>

\* addToHistory as it would be if the overflow dropped the newest entries
AddToHistory_DropsNewest(h, idx, action, ss) ==
    LET cut == SubSeq(h, 1, idx + 1)
        pushed == Append(cut, Entry(action, ss))
    IN  IF Len(pushed) > MAX_HISTORY_SIZE
        THEN <<SubSeq(pushed, 1, MAX_HISTORY_SIZE), MAX_HISTORY_SIZE - 1>>
        ELSE <<pushed, idx + 1>>

\* SeatingData.addToHistory; the result is <<history, historyIndex>>
AddToHistory(h, idx, action, ss) ==
    LET cut == SubSeq(h, 1, idx + 1)
        pushed == Append(cut, Entry(action, ss))
    IN  IF Len(pushed) > MAX_HISTORY_SIZE
        THEN LET removeCount == Len(pushed) - MAX_HISTORY_SIZE
                 kept == SubSeq(pushed, removeCount + 1, Len(pushed))
             IN  <<kept, Len(kept) - 1>>
        ELSE <<pushed, idx + 1>>

\* undo as it would be if the pointer moved before the entry is read
UndoData_ReadsAfterStep(h, idx) ==
    IF idx >= 0
    THEN <<IF idx >= 1 THEN h[idx] ELSE NoEntry, idx - 1>>
    ELSE <<NoEntry, idx>>

\* SeatingData.undo; the result is <<returned entry, historyIndex>>
UndoData(h, idx) ==
    IF idx >= 0 THEN <<h[idx + 1], idx - 1>> ELSE <<NoEntry, idx>>

\* redo as it would be if it returned the newest entry
RedoData_ReturnsNewest(h, idx) ==
    IF idx < Len(h) - 1 THEN <<h[Len(h)], idx + 1>> ELSE <<NoEntry, idx>>

\* SeatingData.redo; the result is <<returned entry, historyIndex>>
RedoData(h, idx) ==
    IF idx < Len(h) - 1 THEN <<h[idx + 2], idx + 1>> ELSE <<NoEntry, idx>>

CanUndo(idx) == idx >= 0
CanRedo(h, idx) == idx < Len(h) - 1

\* SeatingApp.restoreFromHistory: the seats of the entry, cloned and relinked
RestoreFromHistory(entry, sts) ==
    RelinkStudentReferences(DeepClone(entry.data), sts)

\* ------------------------------------------------- single-seat operations
\* the guards as they would be without the isDeleted test
AssignAccepted_NoDeletedTest(ss, sts, u, sid) ==
    LET t == FindSeatById(ss, sid)
        cur == FindSeatOfStudent(ss, u)
    IN  /\ u \in DOMAIN sts
        /\ t # 0
        /\ ~(cur # 0 /\ ss[cur].id = sid)

\* the guards of assignStudentToSeat up to its second return
AssignAccepted(ss, sts, u, sid) ==
    LET t == FindSeatById(ss, sid)
        cur == FindSeatOfStudent(ss, u)
    IN  /\ u \in DOMAIN sts
        /\ t # 0
        /\ ~ss[t].isDeleted
        /\ ~(cur # 0 /\ ss[cur].id = sid)

\* the seat writes as they would be if the student's old seat were just cleared
AssignSeats_DropsDisplaced(ss, u, sid) ==
    LET t == FindSeatById(ss, sid)
        cur == FindSeatOfStudent(ss, u)
        s1 == [ss EXCEPT ![t].student = RosterRef(u)]
    IN  IF cur # 0 THEN [s1 EXCEPT ![cur].student = NoStudent] ELSE s1

\* the seat writes of assignStudentToSeat
AssignSeats(ss, u, sid) ==
    LET t == FindSeatById(ss, sid)
        cur == FindSeatOfStudent(ss, u)
        displacedStudent == ss[t].student
        s1 == [ss EXCEPT ![t].student = RosterRef(u)]
    IN  IF cur # 0 THEN [s1 EXCEPT ![cur].student = displacedStudent] ELSE s1

\* the guard of removeStudentFromSeat
RemoveAccepted_NoOccupantTest(ss, sid) == FindSeatById(ss, sid) # 0

RemoveAccepted(ss, sid) ==
    LET t == FindSeatById(ss, sid) IN t # 0 /\ ss[t].student # NoStudent

\* the seat write of removeStudentFromSeat
RemoveSeats(ss, sid) ==
    [ss EXCEPT ![FindSeatById(ss, sid)].student = NoStudent]

\* the guards as they would be without the occupant test
DeleteAccepted_NoOccupantTest(ss, sid) ==
    FindSeatById(ss, sid) # 0

\* the guards of deleteSeat: the seat exists and holds no student
DeleteAccepted(ss, sid) ==
    LET t == FindSeatById(ss, sid) IN t # 0 /\ ss[t].student = NoStudent

\* the seat write of deleteSeat
DeleteSeats(ss, sid) ==
    [ss EXCEPT ![FindSeatById(ss, sid)].isDeleted = TRUE]

\* ------------------------------------------------------------- selection
InSeq(q, x) == \E i \in DOMAIN q : q[i] = x

\* Set.delete on the insertion-ordered selection
RECURSIVE SeqWithout(_, _)
SeqWithout(q, x) ==
    IF q = <<>> THEN <<>>
    ELSE IF Head(q) = x THEN SeqWithout(Tail(q), x)
    ELSE <<Head(q)>> \o SeqWithout(Tail(q), x)

\* Set.add on the insertion-ordered selection
SetAdd(q, x) == IF InSeq(q, x) THEN q ELSE Append(q, x)

\* SeatingApp.toggleSeatSelection
ToggleSeatSelection(sel, sid, clearOthers) ==
    LET s1 == IF clearOthers /\ ~InSeq(sel, sid) THEN <<>> ELSE sel
    IN  IF InSeq(s1, sid) THEN SeqWithout(s1, sid) ELSE Append(s1, sid)

\* SeatingApp.selectAllSeats: the non-deleted seats in collection order
RECURSIVE ActiveIds(_, _)
ActiveIds(ss, i) ==
    IF i > Len(ss) THEN <<>>
    ELSE IF ss[i].isDeleted THEN ActiveIds(ss, i + 1)
    ELSE <<ss[i].id>> \o ActiveIds(ss, i + 1)

SelectAllSeats(ss) == ActiveIds(ss, 1)

\* ------------------------------------------------------ multi-seat move
\* checkMultiDropTarget returning null
Rejected == [ok |-> FALSE, positions |-> <<>>, displacedStudents |-> <<>>]

\* the for-loop of checkMultiDropTarget over selectedSeatIds[k..]
RECURSIVE PlanScan(_, _, _, _, _, _, _, _)
PlanScan(ss, rws, cls, ids, rowOffset, colOffset, k, acc) ==
    IF k > Len(ids) THEN acc
    ELSE
      LET src == FindSeatById(ss, ids[k]) IN
      IF src = 0 THEN PlanScan(ss, rws, cls, ids, rowOffset, colOffset, k + 1, acc)
      ELSE
        LET newRow == ss[src].row + rowOffset
            newCol == ss[src].col + colOffset
        IN
        IF newRow < 0 \/ newRow >= rws \/ newCol < 0 \/ newCol >= cls THEN Rejected
        ELSE
          LET t == FindSeatAt(ss, newRow, newCol) IN
          IF t = 0 \/ ss[t].isDeleted THEN Rejected
          ELSE
            PlanScan(ss, rws, cls, ids, rowOffset, colOffset, k + 1,
              [ok |-> TRUE,
               positions |-> Append(acc.positions,
                    [originalSeatId |-> ids[k],
                     targetSeatId |-> ss[t].id,
                     student |-> ss[src].student]),
               displacedStudents |->
                    IF ss[t].student # NoStudent /\ ~InSeq(ids, ss[t].id)
                    THEN Append(acc.displacedStudents, ss[t].student)
                    ELSE acc.displacedStudents])

\* checkMultiDropTarget as it would be if no isDeleted flag were tested
CheckMultiDropTarget_IgnoresDeleted(ss, rws, cls, targetSeatId, ids) ==
    LET t == FindSeatById(ss, targetSeatId)
        live == [i \in DOMAIN ss |-> [ss[i] EXCEPT !.isDeleted = FALSE]]
    IN
    IF t = 0 THEN Rejected
    ELSE
      LET first == IF ids = <<>> THEN 0 ELSE FindSeatById(ss, ids[1]) IN
      IF first = 0 THEN Rejected
      ELSE PlanScan(live, rws, cls, ids,
                    ss[t].row - ss[first].row, ss[t].col - ss[first].col, 1,
                    [ok |-> TRUE, positions |-> <<>>, displacedStudents |-> <<>>])

\* SeatingApp.checkMultiDropTarget: the reference seat is selectedSeatIds[0]
CheckMultiDropTarget(ss, rws, cls, targetSeatId, ids) ==
    LET t == FindSeatById(ss, targetSeatId) IN
    IF t = 0 \/ ss[t].isDeleted THEN Rejected
    ELSE
      LET first == IF ids = <<>> THEN 0 ELSE FindSeatById(ss, ids[1]) IN
      IF first = 0 THEN Rejected
      ELSE PlanScan(ss, rws, cls, ids,
                    ss[t].row - ss[first].row, ss[t].col - ss[first].col, 1,
                    [ok |-> TRUE, positions |-> <<>>, displacedStudents |-> <<>>])

\* the comparator (a.row - b.row) || (a.col - b.col) is negative or zero
RowColLeq(a, b) == a.row < b.row \/ (a.row = b.row /\ a.col <= b.col)

\* Array.prototype.sort with that comparator (stable), on a sequence of
\* records that carry row and col
RECURSIVE InsertSorted(_, _)
InsertSorted(q, x) ==
    IF q = <<>> THEN <<x>>
    ELSE IF RowColLeq(q[Len(q)], x) THEN Append(q, x)
    ELSE Append(InsertSorted(SubSeq(q, 1, Len(q) - 1), x), q[Len(q)])

RECURSIVE SortRowCol(_)
SortRowCol(q) ==
    IF q = <<>> THEN <<>>
    ELSE InsertSorted(SortRowCol(SubSeq(q, 1, Len(q) - 1)), q[Len(q)])

\* step 1 of executeMultiDropWithAllSeats: the source seats that are no
\* target of the move, exist and are not deleted, in row-major order
RECURSIVE VacatedScan(_, _, _, _)
VacatedScan(ss, plan, ids, k) ==
    IF k > Len(ids) THEN <<>>
    ELSE
      LET i == FindSeatById(ss, ids[k])
          isTarget == \E p \in DOMAIN plan.positions :
                         plan.positions[p].targetSeatId = ids[k]
          rest == VacatedScan(ss, plan, ids, k + 1)
      IN  IF ~isTarget /\ i # 0 /\ ~ss[i].isDeleted
          THEN <<[idx |-> i, row |-> ss[i].row, col |-> ss[i].col]>> \o rest
          ELSE rest

AvailableSourceSeats(ss, plan, ids) == SortRowCol(VacatedScan(ss, plan, ids, 1))

\* step 2: positions.forEach; st = [seats, studentsToMove, displacedStudents]
RECURSIVE CollectScan(_, _, _, _)
CollectScan(st, plan, ids, k) ==
    IF k > Len(plan.positions) THEN st
    ELSE
      LET pos == plan.positions[k]
          s == FindSeatById(st.seats, pos.originalSeatId)
          t == FindSeatById(st.seats, pos.targetSeatId)
          moves == s # 0 /\ st.seats[s].student # NoStudent
          seats1 == IF moves THEN [st.seats EXCEPT ![s].student = NoStudent]
                    ELSE st.seats
          toMove1 == IF moves
                     THEN Append(st.studentsToMove,
                            [student |-> st.seats[s].student,
                             targetSeatId |-> pos.targetSeatId])
                     ELSE st.studentsToMove
          displaced1 ==
              IF t # 0 /\ seats1[t].student # NoStudent /\ ~InSeq(ids, pos.targetSeatId)
              THEN Append(st.displacedStudents,
                     [student |-> seats1[t].student,
                      row |-> seats1[t].row, col |-> seats1[t].col])
              ELSE st.displacedStudents
      IN  CollectScan([seats |-> seats1, studentsToMove |-> toMove1,
                       displacedStudents |-> displaced1], plan, ids, k + 1)

\* step 4: studentsToMove.forEach
RECURSIVE PlaceScan(_, _, _)
PlaceScan(ss, toMove, k) ==
    IF k > Len(toMove) THEN ss
    ELSE LET t == FindSeatById(ss, toMove[k].targetSeatId)
         IN  PlaceScan(IF t # 0 THEN [ss EXCEPT ![t].student = toMove[k].student] ELSE ss,
                       toMove, k + 1)

\* step 5: displacedStudents.forEach; beyond the available seats the student
\* only has its seatId cache nulled, which the following sync recomputes
RECURSIVE BackfillScan(_, _, _, _)
BackfillScan(ss, displaced, avail, k) ==
    IF k > Len(displaced) THEN ss
    ELSE BackfillScan(IF k <= Len(avail)
                      THEN [ss EXCEPT ![avail[k].idx].student = displaced[k].student]
                      ELSE ss,
                      displaced, avail, k + 1)

\* the seat writes as they would be without step 5
MultiDropSeats_NoBackfill(ss, plan, ids) ==
    LET st == CollectScan([seats |-> ss, studentsToMove |-> <<>>,
                           displacedStudents |-> <<>>], plan, ids, 1)
    IN  PlaceScan(st.seats, st.studentsToMove, 1)

\* the seat writes of executeMultiDropWithAllSeats for an accepted plan
MultiDropSeats(ss, plan, ids) ==
    LET avail == AvailableSourceSeats(ss, plan, ids)
        st == CollectScan([seats |-> ss, studentsToMove |-> <<>>,
                           displacedStudents |-> <<>>], plan, ids, 1)
        displaced == SortRowCol(st.displacedStudents)
        placed == PlaceScan(st.seats, st.studentsToMove, 1)
    IN  BackfillScan(placed, displaced, avail, 1)

\* DragDropManager.prepareMultiSeatDrag: the ids of the selected seats that
\* exist, in selection order (dragData.sourceSeats)
RECURSIVE SourceSeatIds(_, _)
SourceSeatIds(ss, sel) ==
    IF sel = <<>> THEN <<>>
    ELSE IF FindSeatById(ss, Head(sel)) # 0
         THEN <<Head(sel)>> \o SourceSeatIds(ss, Tail(sel))
         ELSE SourceSeatIds(ss, Tail(sel))

\* ------------------------------------------------------------ the state
\* the seat ids and uuids that arrive as arguments: every id of the largest
\* layout plus one row beyond it, every roster uuid plus an unknown one
SeatIdInputs == { SeatId(r, c) : r \in 0..MaxRows, c \in 0..(MaxCols - 1) }
UuidInputs == Students \cup {UnknownUuid}
LayoutInputs == { <<r, c>> : r \in 1..MaxRows, c \in 1..MaxCols }

EmptySeats(rws, cls) == InitializeSeats(<<>>, rws, cls)

\* the roster in the order the students were added
Roster == <<"A", "B", "C">>

\* the seatings of a stored session: the first k students of the roster sit
\* on k seats, in roster order along the row-major scan
Seatings(rws, cls) ==
    { f \in [1..(rws * cls) -> 0..Len(Roster)] :
        /\ \A i, j \in 1..(rws * cls) : (i < j /\ f[i] # 0 /\ f[j] # 0) => f[i] < f[j]
        /\ \A i \in 1..(rws * cls) : \A n \in 1..(f[i] - 1) :
              \E j \in 1..(rws * cls) : f[j] = n }

SeatsOf(f, rws, cls) ==
    [k \in 1..(rws * cls) |->
        [EmptySeats(rws, cls)[k] EXCEPT
            !.student = IF f[k] = 0 THEN NoStudent ELSE RosterRef(Roster[f[k]])]]

\* the last operation: its name, whether it passed its guards, its arguments,
\* the seats it started from and the operation before it
Last(op, ok, u, sid, ids) ==
    [op |-> op, ok |-> ok, uuid |-> u, seatId |-> sid, ids |-> ids,
     preSeats |-> seats, prevOp |-> last.op]

\* SeatingApp.init on a stored session: the roster and its seating are
\* loaded, the history is empty, so init pushes the first entry and puts the
\* pointer back to -1
InitSession(ss, rws, cls) ==
    /\ rows = rws
    /\ cols = cls
    /\ seats = ss
    /\ students = SyncStudentSeatIds([u \in Students |-> NoSeat], seats)
    /\ history = AddToHistory(<<>>, -1, "seatArrangement", seats)[1]
    /\ historyIndex = -1
    /\ selectedSeats = <<>>
    /\ nOps = 0
    /\ nSel = 0
    /\ last = [op |-> "init", ok |-> TRUE, uuid |-> "", seatId |-> NoSeat, ids |-> <<>>,
               preSeats |-> seats, prevOp |-> "none"]
    /\ recLog = <<>>
    /\ undoLog = <<>>
    /\ dragData = NoDrag
    /\ lastPlan = NoPlan
    /\ returned = NoReturn
    /\ isDragging = FALSE
    /\ isSelecting = FALSE
    /\ boxSeats = {}
    /\ coordCall = NoCoordCall
    /\ dragStartSelection = <<>>

\* ... with the layout the program starts from
InitStored(ss) == InitSession(ss, MaxRows, MaxCols)

InitApp(f) == InitStored(SeatsOf(f, MaxRows, MaxCols))

Init == \E f \in Seatings(MaxRows, MaxCols) : InitApp(f)

Record(action) == AddToHistory(history, historyIndex, action, seats)

Ghosts == UNCHANGED <<recLog, undoLog>>

\* the flags of the DragDropManager, the seats marked by the selection box,
\* the last call of a coordinate function and the selection noted when the
\* drag in flight started stay as they are
NoController ==
    UNCHANGED <<isDragging, isSelecting, boxSeats, coordCall, dragStartSelection>>

\* no pointer gesture and no call of SeatingData.undo / redo on its own
NoGesture == UNCHANGED <<dragData, lastPlan, returned>> /\ NoController

\* ---------------------------------------------------------------- actions
\* SeatingApp.assignStudentToSeat(studentUuid, seatId)
AssignStudentToSeat(u, sid) ==
    /\ nOps < MaxOps
    /\ nOps' = nOps + 1
    /\ last' = Last("assign", AssignAccepted(seats, students, u, sid), u, sid, <<>>)
    /\ IF AssignAccepted(seats, students, u, sid)
       THEN /\ history' = Record("seatArrangement")[1]
            /\ historyIndex' = Record("seatArrangement")[2]
            /\ seats' = AssignSeats(seats, u, sid)
            /\ students' = SyncStudentSeatIds(students, seats')
       ELSE UNCHANGED <<history, historyIndex, seats, students>>
    /\ UNCHANGED <<rows, cols, selectedSeats, nSel>>
    /\ Ghosts
    /\ NoGesture

\* SeatingApp.removeStudentFromSeat(seatId)
RemoveStudentFromSeat(sid) ==
    /\ nOps < MaxOps
    /\ nOps' = nOps + 1
    /\ last' = Last("remove", RemoveAccepted(seats, sid), "", sid, <<>>)
    /\ IF RemoveAccepted(seats, sid)
       THEN /\ history' = Record("seatArrangement")[1]
            /\ historyIndex' = Record("seatArrangement")[2]
            /\ seats' = RemoveSeats(seats, sid)
            /\ students' = SyncStudentSeatIds(students, seats')
       ELSE UNCHANGED <<history, historyIndex, seats, students>>
    /\ UNCHANGED <<rows, cols, selectedSeats, nSel>>
    /\ Ghosts
    /\ NoGesture

\* SeatingApp.deleteSeat(seatId): an already deleted seat is deleted again
DeleteSeat(sid) ==
    /\ nOps < MaxOps
    /\ nOps' = nOps + 1
    /\ last' = Last("deleteSeat", DeleteAccepted(seats, sid), "", sid, <<>>)
    /\ IF DeleteAccepted(seats, sid)
       THEN /\ history' = Record("seatArrangement")[1]
            /\ historyIndex' = Record("seatArrangement")[2]
            /\ seats' = DeleteSeats(seats, sid)
       ELSE UNCHANGED <<history, historyIndex, seats>>
    /\ UNCHANGED <<rows, cols, selectedSeats, students, nSel>>
    /\ Ghosts
    /\ NoGesture

\* ctrl/cmd + pointer-down on a rendered seat (handleSeatPointerDown):
\* toggleSeatSelection(seatId, false)
CtrlClickSeat(sid) ==
    /\ nOps < MaxOps
    /\ nSel < MaxSelSteps
    /\ nSel' = nSel + 1
    /\ FindSeatById(seats, sid) # 0
    /\ ~seats[FindSeatById(seats, sid)].isDeleted
    /\ selectedSeats' = ToggleSeatSelection(selectedSeats, sid, FALSE)
    /\ last' = Last("toggle", TRUE, "", sid, <<>>)
    /\ UNCHANGED <<rows, cols, seats, students, history, historyIndex, nOps>>
    /\ Ghosts
    /\ NoGesture

\* the selectAllSeats button
SelectAll ==
    /\ nOps < MaxOps
    /\ nSel < MaxSelSteps
    /\ nSel' = nSel + 1
    /\ selectedSeats' = SelectAllSeats(seats)
    /\ last' = Last("selectAll", TRUE, "", NoSeat, <<>>)
    /\ UNCHANGED <<rows, cols, seats, students, history, historyIndex, nOps>>
    /\ Ghosts
    /\ NoGesture

\* the clearSelection button
ClearSelection ==
    /\ nOps < MaxOps
    /\ nSel < MaxSelSteps
    /\ nSel' = nSel + 1
    /\ selectedSeats' = <<>>
    /\ last' = Last("clearSelection", TRUE, "", NoSeat, <<>>)
    /\ UNCHANGED <<rows, cols, seats, students, history, historyIndex, nOps>>
    /\ Ghosts
    /\ NoGesture

\* toggleSeatSelection(seatId, true): the call with clearOthers set
ToggleExclusive(sid) ==
    /\ nOps < MaxOps
    /\ nSel < MaxSelSteps
    /\ nSel' = nSel + 1
    /\ selectedSeats' = ToggleSeatSelection(selectedSeats, sid, TRUE)
    /\ last' = Last("toggleExclusive", TRUE, "", sid, selectedSeats)
    /\ UNCHANGED <<rows, cols, seats, students, history, historyIndex, nOps>>
    /\ Ghosts
    /\ NoGesture

\* the seat writes of clearSelectedSeats
RECURSIVE ClearSeatsOf(_, _)
ClearSeatsOf(ss, sel) ==
    IF sel = <<>> THEN ss
    ELSE LET t == FindSeatById(ss, Head(sel))
         IN  ClearSeatsOf(IF t # 0 /\ ~ss[t].isDeleted
                          THEN [ss EXCEPT ![t].student = NoStudent] ELSE ss,
                          Tail(sel))

\* SeatingApp.clearSelectedSeats (confirmed by the user); no syncStudentSeatIds
ClearSelectedSeats ==
    /\ nOps < MaxOps
    /\ nOps' = nOps + 1
    /\ last' = Last("clearSelectedSeats", selectedSeats # <<>>, "", NoSeat,
                    selectedSeats)
    /\ IF selectedSeats # <<>>
       THEN /\ history' = Record("seatArrangement")[1]
            /\ historyIndex' = Record("seatArrangement")[2]
            /\ seats' = ClearSeatsOf(seats, selectedSeats)
            /\ selectedSeats' = <<>>
       ELSE UNCHANGED <<history, historyIndex, seats, selectedSeats>>
    /\ UNCHANGED <<rows, cols, students, nSel>>
    /\ Ghosts
    /\ NoGesture

\* the seat writes of clearAllSeats
ResetSeats(ss) ==
    [i \in DOMAIN ss |-> [ss[i] EXCEPT !.student = NoStudent, !.isDeleted = FALSE]]

\* SeatingApp.clearAllSeats (confirmed by the user); no syncStudentSeatIds
ClearAllSeats ==
    /\ nOps < MaxOps
    /\ nOps' = nOps + 1
    /\ last' = Last("clearAllSeats", TRUE, "", NoSeat, <<>>)
    /\ history' = Record("seatArrangement")[1]
    /\ historyIndex' = Record("seatArrangement")[2]
    /\ seats' = ResetSeats(seats)
    /\ UNCHANGED <<rows, cols, students, selectedSeats, nSel>>
    /\ Ghosts
    /\ NoGesture

\* a seat that handleSeatPointerDown turns into a multi-seat drag payload
CanAnchor(ss, sel, sid) ==
    LET t == FindSeatById(ss, sid)
    IN  t # 0 /\ ss[t].student # NoStudent /\ ~ss[t].isDeleted /\ InSeq(sel, sid)

\* a press on a selected, occupied seat, a drag and a release over the seat
\* targetSeatId: endDrag -> executeMultiDropWithAllSeats(targetSeatId, dragData)
MultiDrop(anchor, targetSeatId) ==
    LET ids == SourceSeatIds(seats, selectedSeats)
        plan == CheckMultiDropTarget(seats, rows, cols, targetSeatId, ids)
    IN  /\ nOps < MaxOps
        /\ nOps' = nOps + 1
        /\ CanAnchor(seats, selectedSeats, anchor)
        /\ last' = Last("multiDrop", plan.ok, "", targetSeatId, ids)
        /\ IF plan.ok
           THEN /\ history' = Record("seatArrangement")[1]
                /\ historyIndex' = Record("seatArrangement")[2]
                /\ seats' = MultiDropSeats(seats, plan, ids)
                /\ selectedSeats' = <<>>
                /\ students' = SyncStudentSeatIds(students, seats')
           ELSE UNCHANGED <<history, historyIndex, seats, selectedSeats, students>>
        /\ UNCHANGED <<rows, cols, nSel>>
        /\ Ghosts
        /\ NoGesture

\* SeatingApp.undo: SeatingData.undo, then restoreFromHistory, which restores
\* only entries recorded as 'seatArrangement' and does not sync the caches
Undo ==
    LET r == UndoData(history, historyIndex)
    IN  /\ last' = Last("undo", r[1] # NoEntry, "", NoSeat, <<>>)
        /\ historyIndex' = r[2]
        /\ seats' = IF r[1] # NoEntry /\ r[1].action = "seatArrangement"
                    THEN RestoreFromHistory(r[1], students)
                    ELSE seats
        /\ UNCHANGED <<rows, cols, students, history, selectedSeats, nOps, nSel>>
        /\ Ghosts
        /\ NoGesture

\* a seat keeps the object of a student that left the students array
Unlink(ss, sts) ==
    [i \in DOMAIN ss |->
        IF ss[i].student # NoStudent /\ ss[i].student.uuid \notin DOMAIN sts
        THEN [ss[i] EXCEPT !.student.linked = FALSE]
        ELSE ss[i]]

\* SeatingApp.deleteStudent(uuid) (confirmed by the user); no history entry
DeleteStudent(u) ==
    LET cur == FindSeatOfStudent(seats, u)
        roster == [v \in (DOMAIN students) \ {u} |-> students[v]]
        cleared == IF cur # 0 THEN [seats EXCEPT ![cur].student = NoStudent] ELSE seats
    IN  /\ nOps < MaxOps
        /\ nOps' = nOps + 1
        /\ u \in DOMAIN students
        /\ last' = Last("deleteStudent", TRUE, u, NoSeat, <<>>)
        /\ seats' = Unlink(cleared, roster)
        /\ students' = SyncStudentSeatIds(roster, seats')
        /\ UNCHANGED <<rows, cols, history, historyIndex, selectedSeats, nSel>>
        /\ Ghosts
        /\ NoGesture

\* SeatingApp.clearAllStudents (confirmed by the user)
ClearAllStudents ==
    /\ nOps < MaxOps
    /\ nOps' = nOps + 1
    /\ last' = Last("clearAllStudents", TRUE, "", NoSeat, <<>>)
    /\ history' = Record("seatArrangement")[1]
    /\ historyIndex' = Record("seatArrangement")[2]
    /\ seats' = [i \in DOMAIN seats |-> [seats[i] EXCEPT !.student = NoStudent]]
    /\ students' = SyncStudentSeatIds(<<>>, seats')
    /\ UNCHANGED <<rows, cols, selectedSeats, nSel>>
    /\ Ghosts
    /\ NoGesture

\* SeatingApp.applyNewLayoutFromDropdown (confirmed by the user); neither
\* syncStudentSeatIds nor clearSelection is called
ApplyNewLayout(newRows, newCols) ==
    /\ nOps < MaxOps
    /\ nOps' = nOps + 1
    /\ last' = Last("layout", TRUE, "", NoSeat, <<>>)
    /\ history' = Record("seatArrangement")[1]
    /\ historyIndex' = Record("seatArrangement")[2]
    /\ rows' = newRows
    /\ cols' = newCols
    /\ seats' = InitializeSeats(seats, newRows, newCols)
    /\ UNCHANGED <<students, selectedSeats, nSel>>
    /\ Ghosts
    /\ NoGesture

\* the operations on single seats, the roster, the layout and the history
Next ==
    \/ \E u \in UuidInputs, sid \in SeatIdInputs : AssignStudentToSeat(u, sid)
    \/ \E sid \in SeatIdInputs : RemoveStudentFromSeat(sid)
    \/ \E sid \in SeatIdInputs : DeleteSeat(sid)
    \/ ClearAllSeats
    \/ Undo
    \/ \E u \in Students : DeleteStudent(u)
    \/ ClearAllStudents
    \/ \E l \in LayoutInputs : ApplyNewLayout(l[1], l[2])

Spec == Init /\ [][Next]_vars

\* the selection and the multi-seat move, with the operations they meet
NextBlock ==
    \/ \E sid \in SeatIdInputs : CtrlClickSeat(sid)
    \/ SelectAll
    \/ ClearSelection
    \/ ClearSelectedSeats
    \/ \E sid \in SeatIdInputs : DeleteSeat(sid)
    \/ \E a \in SeatIdInputs, t \in SeatIdInputs : MultiDrop(a, t)
    \/ Undo

SpecBlock == Init /\ [][NextBlock]_vars

\* the selection on its own, with seat deletion
NextSelect ==
    \/ \E sid \in SeatIdInputs : CtrlClickSeat(sid)
    \/ \E sid \in SeatIdInputs : ToggleExclusive(sid)
    \/ SelectAll
    \/ ClearSelection
    \/ \E sid \in SeatIdInputs : DeleteSeat(sid)

SpecSelect == Init /\ [][NextSelect]_vars

\* every recording operation, every undo and the multi-seat move together
NextUndo ==
    \/ \E u \in UuidInputs, sid \in SeatIdInputs : AssignStudentToSeat(u, sid)
    \/ \E sid \in SeatIdInputs : RemoveStudentFromSeat(sid)
    \/ \E sid \in SeatIdInputs : DeleteSeat(sid)
    \/ \E l \in LayoutInputs : ApplyNewLayout(l[1], l[2])
    \/ \E sid \in SeatIdInputs : CtrlClickSeat(sid)
    \/ \E a \in SeatIdInputs, t \in SeatIdInputs : MultiDrop(a, t)
    \/ Undo

SpecUndo == Init /\ [][NextUndo]_vars

\* ------------------------------------------- the history manager on its own
\* the seatings the recorded operations switch between
PoolSeatings ==
    { f \in Seatings(MaxRows, MaxCols) : \A k \in 2..(MaxRows * MaxCols) : f[k] = 0 }

InitHistory == \E f \in PoolSeatings : InitApp(f)

\* a recording operation: addToHistory(action, {seats}) and then its seat
\* writes, which lead to the seating f; recLog holds the snapshots of the
\* current run of successive calls
RecordCall(f) ==
    /\ Len(recLog) < MaxRecords
    /\ last' = Last("record", TRUE, "", NoSeat, <<>>)
    /\ history' = Record("seatArrangement")[1]
    /\ historyIndex' = Record("seatArrangement")[2]
    /\ seats' = SeatsOf(f, MaxRows, MaxCols)
    /\ recLog' = IF undoLog = <<>> THEN Append(recLog, DeepClone(seats))
                 ELSE <<DeepClone(seats)>>
    /\ undoLog' = <<>>
    /\ UNCHANGED <<rows, cols, students, selectedSeats, nOps, nSel, dragData, lastPlan,
                   returned>>
    /\ NoController

\* SeatingData.undo(); undoLog holds what the current run of successive
\* calls returned
UndoCall ==
    /\ Len(undoLog) < MaxUndos
    /\ last' = Last("undoCall", UndoData(history, historyIndex)[1] # NoEntry, "", NoSeat, <<>>)
    /\ historyIndex' = UndoData(history, historyIndex)[2]
    /\ returned' = [entry |-> UndoData(history, historyIndex)[1], from |-> historyIndex]
    /\ undoLog' = Append(undoLog, UndoData(history, historyIndex)[1])
    /\ UNCHANGED <<rows, cols, seats, students, history, selectedSeats, nOps, nSel,
                   recLog, dragData, lastPlan>>
    /\ NoController

\* SeatingData.redo(); it ends both runs
RedoCall ==
    /\ last' = Last("redoCall", RedoData(history, historyIndex)[1] # NoEntry, "", NoSeat, <<>>)
    /\ historyIndex' = RedoData(history, historyIndex)[2]
    /\ returned' = [entry |-> RedoData(history, historyIndex)[1], from |-> historyIndex]
    /\ recLog' = <<>>
    /\ undoLog' = <<>>
    /\ UNCHANGED <<rows, cols, seats, students, history, selectedSeats, nOps, nSel,
                   dragData, lastPlan>>
    /\ NoController

NextHistory ==
    \/ \E f \in PoolSeatings : RecordCall(f)
    \/ UndoCall
    \/ RedoCall

SpecHistory == InitHistory /\ [][NextHistory]_vars

\* ------------------------------------------------------ bulk arrangements
\* the students array, in its order
RosterOrder(sts) == SelectSeq(Roster, LAMBDA u : u \in DOMAIN sts)

\* seats.forEach(seat => { if (!seat.isDeleted) seat.student = null })
ClearLive(ss) ==
    [i \in DOMAIN ss |->
        IF ss[i].isDeleted THEN ss[i] ELSE [ss[i] EXCEPT !.student = NoStudent]]

\* SeatingData.getActiveSeats, as indices of the collection
ActiveSeats(ss) == { i \in DOMAIN ss : ~ss[i].isDeleted }

MinOf(a, b) == IF a < b THEN a ELSE b

\* what the Math.random loop of randomSeatArrangement can produce: students
\* and live seats are paired off, each used once, until one side runs out
RandomOutcomes(ss, sts) ==
    { g \in [ActiveSeats(ss) -> (DOMAIN sts) \cup {""}] :
        /\ \A i, j \in ActiveSeats(ss) : (i # j /\ g[i] # "") => g[i] # g[j]
        /\ Cardinality({ i \in ActiveSeats(ss) : g[i] # "" })
              = MinOf(Cardinality(DOMAIN sts), Cardinality(ActiveSeats(ss))) }

\* the seat writes of randomSeatArrangement for the outcome g
RandomSeats(ss, g) ==
    [i \in DOMAIN ss |->
        IF ss[i].isDeleted THEN ss[i]
        ELSE [ss[i] EXCEPT !.student = IF g[i] = "" THEN NoStudent ELSE RosterRef(g[i])]]

\* the orders the sorts of ruleBasedSeatArrangement can give the students
StudentOrders(sts) ==
    { q \in [1..Cardinality(DOMAIN sts) -> DOMAIN sts] :
        \A i, j \in DOMAIN q : i # j => q[i] # q[j] }

\* the live seats in the order of arrangeStudentsInOrder: by column, then
\* back row first ('column'), or back row first, then by column ('row')
ArrangeSeatOrder(ss, arrangementType) ==
    SortRowCol(SelectSeq(
        [i \in DOMAIN ss |->
            IF arrangementType = "column"
            THEN [row |-> ss[i].col, col |-> 0 - ss[i].row, idx |-> i]
            ELSE [row |-> 0 - ss[i].row, col |-> ss[i].col, idx |-> i]],
        LAMBDA k : ~ss[k.idx].isDeleted))

\* SeatingApp.arrangeStudentsInOrder
ArrangeStudentsInOrder(ss, order, arrangementType) ==
    LET avail == ArrangeSeatOrder(ss, arrangementType)
    IN  [i \in DOMAIN ss |->
            IF \E n \in DOMAIN avail : avail[n].idx = i /\ n <= Len(order)
            THEN [ss[i] EXCEPT !.student =
                    RosterRef(order[CHOOSE n \in DOMAIN avail : avail[n].idx = i])]
            ELSE ss[i]]

\* SeatingApp.randomSeatArrangement (button "random")
RandomSeatArrangement ==
    /\ nOps < MaxOps
    /\ nOps' = nOps + 1
    /\ last' = Last("random", DOMAIN students # {}, "", NoSeat, <<>>)
    /\ IF DOMAIN students # {}
       THEN /\ history' = Record("seatArrangement")[1]
            /\ historyIndex' = Record("seatArrangement")[2]
            /\ \E g \in RandomOutcomes(seats, students) :
                  seats' = RandomSeats(seats, g)
            /\ students' = SyncStudentSeatIds(students, seats')
       ELSE UNCHANGED <<history, historyIndex, seats, students>>
    /\ UNCHANGED <<rows, cols, selectedSeats, nSel>>
    /\ Ghosts
    /\ NoGesture

\* SeatingApp.ruleBasedSeatArrangement; rule is "none" when no box is ticked,
\* else the arrangement type; order is what the ticked sorts make of the roster
RuleBasedSeatArrangement(rule, order) ==
    LET first == Record("seatArrangement")
        cleared == ClearLive(seats)
        second == AddToHistory(first[1], first[2], "seatArrangement", cleared)
    IN  /\ nOps < MaxOps
        /\ nOps' = nOps + 1
        /\ last' = Last("ruleBased", DOMAIN students # {}, "", NoSeat, <<>>)
        /\ IF DOMAIN students = {}
           THEN UNCHANGED <<history, historyIndex, seats, students>>
           ELSE IF rule = "none"
           THEN /\ history' = second[1]
                /\ historyIndex' = second[2]
                /\ \E g \in RandomOutcomes(cleared, students) :
                      seats' = RandomSeats(cleared, g)
                /\ students' = SyncStudentSeatIds(students, seats')
           ELSE /\ history' = first[1]
                /\ historyIndex' = first[2]
                /\ seats' = ArrangeStudentsInOrder(cleared, order, rule)
                /\ students' = SyncStudentSeatIds(students, seats')
        /\ UNCHANGED <<rows, cols, selectedSeats, nSel>>
        /\ Ghosts
        /\ NoGesture

\* the forEach of AIHandler.applySeating over assignments[k..]
RECURSIVE ApplyScan(_, _, _, _, _)
ApplyScan(ss, sts, rws, assignments, k) ==
    IF k > Len(assignments) THEN ss
    ELSE
      LET a == assignments[k]
          t == FindSeatAt(ss, rws - a.row, a.col - 1)
      IN  ApplyScan(IF a.uuid \in DOMAIN sts /\ t # 0 /\ ~ss[t].isDeleted
                    THEN [ss EXCEPT ![t].student = RosterRef(a.uuid)]
                    ELSE ss,
                    sts, rws, assignments, k + 1)

\* AIHandler.applySeating(assignments): the entry is recorded as 'aiArrangement'
ApplySeating(assignments) ==
    /\ nOps < MaxOps
    /\ nOps' = nOps + 1
    /\ last' = Last("aiArrangement", TRUE, "", NoSeat, <<>>)
    /\ history' = Record("aiArrangement")[1]
    /\ historyIndex' = Record("aiArrangement")[2]
    /\ seats' = ApplyScan([i \in DOMAIN seats |-> [seats[i] EXCEPT !.student = NoStudent]],
                          students, rows, assignments, 1)
    /\ students' = SyncStudentSeatIds(students, seats')
    /\ UNCHANGED <<rows, cols, selectedSeats, nSel>>
    /\ Ghosts
    /\ NoGesture

\* the students no seat holds, in roster order (replaceSelectedStudents)
UnseatedStudents(ss, sts) ==
    SelectSeq(RosterOrder(sts),
              LAMBDA u : \A i \in DOMAIN ss : ss[i].student.uuid # u)

ReplaceAccepted_NoDeletedTest(ss, t) == t # 0

\* if (targetSeat && newStudent && !targetSeat.isDeleted); t is the index
\* findSeatById gave, newStudent is a student of the roster
ReplaceAccepted(ss, t) == t # 0 /\ ~ss[t].isDeleted

\* the forEach of executeReplaceSelectedSeats over the ticked rows k.. of the
\* dialog: row k pairs the k-th selected seat with the k-th unseated student
RECURSIVE ReplaceScan(_, _, _, _, _)
ReplaceScan(ss, sel, unseated, checked, k) ==
    IF k > Len(sel) THEN ss
    ELSE
      LET t == FindSeatById(ss, sel[k])
      IN  ReplaceScan(IF k \in checked /\ ReplaceAccepted(ss, t)
                      THEN [ss EXCEPT ![t].student = RosterRef(unseated[k])]
                      ELSE ss,
                      sel, unseated, checked, k + 1)

\* replaceSelectedStudents, the dialog with the rows in checked ticked, and
\* executeReplaceSelectedSeats
ReplaceSelectedStudents(checked) ==
    LET unseated == UnseatedStudents(seats, students)
        ok == /\ selectedSeats # <<>>
              /\ Len(unseated) >= Len(selectedSeats)
              /\ \A k \in DOMAIN selectedSeats : FindSeatById(seats, selectedSeats[k]) # 0
              /\ checked # {}
    IN  /\ nOps < MaxOps
        /\ nOps' = nOps + 1
        /\ checked \subseteq DOMAIN selectedSeats
        /\ last' = Last("replace", ok, "", NoSeat, selectedSeats)
        /\ IF ok
           THEN /\ history' = Record("seatArrangement")[1]
                /\ historyIndex' = Record("seatArrangement")[2]
                /\ seats' = ReplaceScan(seats, selectedSeats, unseated, checked, 1)
                /\ selectedSeats' = <<>>
                /\ students' = SyncStudentSeatIds(students, seats')
           ELSE UNCHANGED <<history, historyIndex, seats, selectedSeats, students>>
        /\ UNCHANGED <<rows, cols, nSel>>
        /\ Ghosts
        /\ NoGesture

\* the assignments of an AI layout: display coordinates, students by id or name
AssignmentInputs ==
    UNION { [1..n -> [uuid : {Roster[1], Roster[2]}, row : 1..MaxRows, col : 1..MaxCols]] :
            n \in 1..MaxAssignments }

RuleInputs == {"none", "row", "column"}

\* the bulk arrangements, seat deletion and undo
NextArrange ==
    \/ RandomSeatArrangement
    \/ \E rule \in RuleInputs, order \in StudentOrders(students) :
          RuleBasedSeatArrangement(rule, order)
    \/ \E a \in AssignmentInputs : ApplySeating(a)
    \/ \E sid \in SeatIdInputs : DeleteSeat(sid)
    \/ Undo

\* every operation that fills a seat, seat deletion, selection and undo
NextBulk ==
    \/ RandomSeatArrangement
    \/ \E rule \in RuleInputs, order \in StudentOrders(students) :
          RuleBasedSeatArrangement(rule, order)
    \/ \E a \in AssignmentInputs : Len(a) = 1 /\ ApplySeating(a)
    \/ \E checked \in SUBSET (1..MaxSelSteps) : ReplaceSelectedStudents(checked)
    \/ \E u \in UuidInputs, sid \in SeatIdInputs : AssignStudentToSeat(u, sid)
    \/ \E sid \in SeatIdInputs : DeleteSeat(sid)
    \/ \E sid \in SeatIdInputs : CtrlClickSeat(sid)
    \/ \E a \in SeatIdInputs, t \in SeatIdInputs : MultiDrop(a, t)
    \/ Undo

\* a stored session with at most one student seated
InitBulk ==
    \E f \in Seatings(MaxRows, MaxCols) :
        /\ \A k \in DOMAIN f : f[k] <= 1
        /\ InitApp(f)

SpecArrange == InitBulk /\ [][NextArrange]_vars

\* a stored session whose last seat is deleted: Seat's constructor restores
\* the isDeleted flag of every stored seat
InitDeleted ==
    \E f \in PoolSeatings :
        InitStored([SeatsOf(f, MaxRows, MaxCols) EXCEPT ![MaxRows * MaxCols].isDeleted = TRUE])

SpecBulk == InitDeleted /\ [][NextBulk]_vars

\* ---------------------------------------------------------- seat rotation
\* the place of seat i in the line K of seat indices after the sort by key;
\* Array.prototype.sort is stable, so equal keys keep the collection order
PlaceInLine(ss, K, i, byCol) ==
    LET key(j) == IF byCol THEN ss[j].col ELSE ss[j].row
    IN  Cardinality({ j \in K : key(j) < key(i) \/ (key(j) = key(i) /\ j <= i) })

\* the rotation as it would be if the direction were ignored: always
\* unshift(pop)
RotateLines_OneWay(ss, direction, rowWise) ==
    [i \in DOMAIN ss |->
        IF ss[i].isDeleted THEN ss[i]
        ELSE LET K == { j \in ActiveSeats(ss) :
                          IF rowWise THEN ss[j].row = ss[i].row ELSE ss[j].col = ss[i].col }
                 n == Cardinality(K)
                 k == PlaceInLine(ss, K, i, rowWise)
                 from == IF k = 1 THEN n ELSE k - 1
                 src == CHOOSE j \in K : PlaceInLine(ss, K, j, rowWise) = from
             IN  [ss[i] EXCEPT !.student = ss[src].student]]

\* rotateRows / rotateCols over the active seats: the seats of a row (of a
\* col) sorted by col (by row) take the student list of the line after
\* unshift(pop) for a positive direction and after push(shift) otherwise
RotateLines(ss, direction, rowWise) ==
    [i \in DOMAIN ss |->
        IF ss[i].isDeleted THEN ss[i]
        ELSE LET K == { j \in ActiveSeats(ss) :
                          IF rowWise THEN ss[j].row = ss[i].row ELSE ss[j].col = ss[i].col }
                 n == Cardinality(K)
                 k == PlaceInLine(ss, K, i, rowWise)
                 from == IF direction > 0 THEN (IF k = 1 THEN n ELSE k - 1)
                         ELSE (IF k = n THEN 1 ELSE k + 1)
                 src == CHOOSE j \in K : PlaceInLine(ss, K, j, rowWise) = from
             IN  [ss[i] EXCEPT !.student = ss[src].student]]

RotateDirections == {"rowLeft", "rowRight", "colForward", "colBackward"}

\* the switch of rotateSeats
RotatedSeats(ss, direction) ==
    CASE direction = "rowLeft" -> RotateLines(ss, -1, TRUE)
      [] direction = "rowRight" -> RotateLines(ss, 1, TRUE)
      [] direction = "colForward" -> RotateLines(ss, -1, FALSE)
      [] direction = "colBackward" -> RotateLines(ss, 1, FALSE)

\* SeatingApp.rotateSeats(direction)
RotateSeats(direction) ==
    /\ nOps < MaxOps
    /\ nOps' = nOps + 1
    /\ last' = Last(direction, TRUE, "", NoSeat, <<>>)
    /\ history' = Record("seatArrangement")[1]
    /\ historyIndex' = Record("seatArrangement")[2]
    /\ seats' = RotatedSeats(seats, direction)
    /\ students' = SyncStudentSeatIds(students, seats')
    /\ UNCHANGED <<rows, cols, selectedSeats, nSel>>
    /\ Ghosts
    /\ NoGesture

\* a stored session on a MaxLine x MaxLine grid, whose middle seat is
\* deleted in some sessions
InitRotate ==
    \E f \in Seatings(MaxLine, MaxLine), del \in BOOLEAN :
        LET mid == (MaxLine * MaxLine + 1) \div 2
            ss == SeatsOf(f, MaxLine, MaxLine)
        IN  /\ del => f[mid] = 0
            /\ InitSession([ss EXCEPT ![mid].isDeleted = del], MaxLine, MaxLine)

NextRotate == \E d \in RotateDirections : RotateSeats(d)

SpecRotate == InitRotate /\ [][NextRotate]_vars

\* --------------------------------------------------- display coordinates
\* strings are sequences of characters
Digits == <<"0", "1", "2", "3", "4", "5", "6", "7", "8", "9">>

IsDigit(ch) == \E i \in DOMAIN Digits : Digits[i] = ch

DigitValue(ch) == (CHOOSE i \in DOMAIN Digits : Digits[i] = ch) - 1

\* parseInt on a string of decimal digits
RECURSIVE ParseInt(_)
ParseInt(q) ==
    IF q = <<>> THEN 0
    ELSE ParseInt(SubSeq(q, 1, Len(q) - 1)) * 10 + DigitValue(q[Len(q)])

\* String.prototype.trim
RECURSIVE Trim(_)
Trim(q) ==
    IF q = <<>> THEN q
    ELSE IF Head(q) = " " THEN Trim(Tail(q))
    ELSE IF q[Len(q)] = " " THEN Trim(SubSeq(q, 1, Len(q) - 1))
    ELSE q

\* the places of the dash in a match of /^(\d+)-(\d+)$/
DashOfMatch(q) ==
    { i \in 2..(Len(q) - 1) :
        /\ q[i] = "-"
        /\ \A j \in DOMAIN q : j # i => IsDigit(q[j]) }

NoCoord == [row |-> -1]                    \* parseDisplayCoordinate returning null

\* toDisplayCoord(internalRow, internalCol, totalRows)
ToDisplayCoord(internalRow, internalCol, totalRows) ==
    [displayRow |-> totalRows - internalRow, displayCol |-> internalCol + 1]

ToInternalCoord_RowFromOne(displayRow, displayCol, totalRows) ==
    [internalRow |-> displayRow - 1, internalCol |-> displayCol - 1]

\* toInternalCoord(displayRow, displayCol, totalRows)
ToInternalCoord(displayRow, displayCol, totalRows) ==
    [internalRow |-> totalRows - displayRow, internalCol |-> displayCol - 1]

\* parseDisplayCoordinate(coordString, totalRows, totalCols) on a string
ParseDisplayCoordinate(coordString, totalRows, totalCols) ==
    LET trimmedCoord == Trim(coordString)
        match == DashOfMatch(trimmedCoord)
    IN  IF coordString = <<>> \/ match = {} THEN NoCoord
        ELSE
          LET d == CHOOSE i \in match : TRUE
              displayRow == ParseInt(SubSeq(trimmedCoord, 1, d - 1))
              displayCol == ParseInt(SubSeq(trimmedCoord, d + 1, Len(trimmedCoord)))
              internalRow == totalRows - displayRow
              internalCol == displayCol - 1
          IN  IF \/ internalRow < 0 \/ internalRow >= totalRows
                 \/ internalCol < 0 \/ internalCol >= totalCols
              THEN NoCoord
              ELSE [row |-> internalRow, col |-> internalCol,
                    displayRow |-> displayRow, displayCol |-> displayCol,
                    seatId |-> SeatId(internalRow, internalCol)]

\* the characters and the strings handed to parseDisplayCoordinate
CoordAlphabet == {"0", "1", "2", "3", "-", " ", "x"}

CoordStrings == UNION { [1..n -> CoordAlphabet] : n \in 0..MaxCoordLen }

CoordUnchanged ==
    UNCHANGED <<rows, cols, seats, students, history, historyIndex, selectedSeats,
                nOps, nSel, last, recLog, undoLog, dragData, lastPlan, returned,
                isDragging, isSelecting, boxSeats, dragStartSelection>>

\* toInternalCoord(toDisplayCoord(row, col)) for a seat of a totalRows x
\* totalCols grid; each call is taken on its own
RoundTripCall(row, col, totalRows, totalCols) ==
    LET d == ToDisplayCoord(row, col, totalRows)
    IN  /\ coordCall = NoCoordCall
        /\ coordCall' = [fn |-> "roundTrip", row |-> row, col |-> col,
                         rows |-> totalRows, cols |-> totalCols, display |-> d,
                         back |-> ToInternalCoord(d.displayRow, d.displayCol, totalRows)]
        /\ CoordUnchanged

\* parseDisplayCoordinate(str, totalRows, totalCols)
ParseCall(str, totalRows, totalCols) ==
    /\ coordCall = NoCoordCall
    /\ coordCall' = [fn |-> "parse", str |-> str, rows |-> totalRows, cols |-> totalCols,
                     result |-> ParseDisplayCoordinate(str, totalRows, totalCols)]
    /\ CoordUnchanged

NextCoord ==
    \/ \E l \in LayoutInputs : \E row \in 0..(l[1] - 1), col \in 0..(l[2] - 1) :
          RoundTripCall(row, col, l[1], l[2])
    \/ \E l \in LayoutInputs, str \in CoordStrings : ParseCall(str, l[1], l[2])

SpecCoord == InitHistory /\ [][NextCoord]_vars

\* ------------------------------------------------------ pointer gestures
\* a seat element exists for the live seats only (renderClassroom)
Rendered(ss, sid) ==
    FindSeatById(ss, sid) # 0 /\ ~ss[FindSeatById(ss, sid)].isDeleted

\* DragDropManager.prepareSingleSeatDrag
PrepareSingleSeatDrag(ss, sid) ==
    [type |-> "singleSeat",
     studentUuid |-> ss[FindSeatById(ss, sid)].student.uuid,
     sourceSeatId |-> sid]

\* DragDropManager.prepareMultiSeatDrag
PrepareMultiSeatDrag(ss, sel, sid) ==
    [type |-> "multipleSeats",
     sourceSeats |-> SourceSeatIds(ss, sel),
     anchorSeatId |-> sid]

\* what one call of checkMultiDropTarget got and returned
PlanCall(call, plan, targetSeatId, ids, anchor) ==
    [call |-> call, ok |-> plan.ok, positions |-> plan.positions,
     targetSeatId |-> targetSeatId, ids |-> ids, anchor |-> anchor, preSeats |-> seats,
     rows |-> rows, cols |-> cols]

\* handleSeatPointerDown without ctrl/cmd on a rendered, occupied seat
SeatPointerDown(sid) ==
    /\ dragData = NoDrag
    /\ nOps < MaxOps
    /\ Rendered(seats, sid)
    /\ seats[FindSeatById(seats, sid)].student # NoStudent
    /\ dragData' = IF InSeq(selectedSeats, sid)
                   THEN PrepareMultiSeatDrag(seats, selectedSeats, sid)
                   ELSE PrepareSingleSeatDrag(seats, sid)
    /\ UNCHANGED <<rows, cols, seats, students, history, historyIndex, selectedSeats,
                   nOps, nSel, last, lastPlan, returned>>
    /\ Ghosts
    /\ NoController

\* the preview as it would be if it carried out an accepted plan
DragOver_AppliesPreview(targetSeatId) ==
    LET plan == CheckMultiDropTarget(seats, rows, cols, targetSeatId, selectedSeats)
    IN  /\ dragData # NoDrag
        /\ dragData.type = "multipleSeats"
        /\ selectedSeats # <<>>
        /\ Rendered(seats, targetSeatId)
        /\ lastPlan' = PlanCall("preview", plan, targetSeatId, selectedSeats,
                                dragData.anchorSeatId)
        /\ seats' = IF plan.ok THEN MultiDropSeats(seats, plan, selectedSeats) ELSE seats
        /\ UNCHANGED <<rows, cols, students, history, historyIndex, selectedSeats,
                       nOps, nSel, last, dragData, returned>>
        /\ Ghosts
        /\ NoController

\* a pointer-move of a multi-seat drag over the rendered seat targetSeatId:
\* highlightDropTarget previews the plan for the current selection
DragOver(targetSeatId) ==
    /\ dragData # NoDrag
    /\ dragData.type = "multipleSeats"
    /\ selectedSeats # <<>>
    /\ Rendered(seats, targetSeatId)
    /\ lastPlan' = PlanCall("preview",
                            CheckMultiDropTarget(seats, rows, cols, targetSeatId,
                                                 selectedSeats),
                            targetSeatId, selectedSeats, dragData.anchorSeatId)
    /\ UNCHANGED <<rows, cols, seats, students, history, historyIndex, selectedSeats,
                   nOps, nSel, last, dragData, returned>>
    /\ Ghosts
    /\ NoController

\* a pointer-up of a drag over the rendered seat targetSeatId (endDrag):
\* executeMultiDropWithAllSeats or assignStudentToSeat, then cleanup
PointerUpOnSeat(targetSeatId) ==
    /\ dragData # NoDrag
    /\ Rendered(seats, targetSeatId)
    /\ nOps < MaxOps
    /\ nOps' = nOps + 1
    /\ dragData' = NoDrag
    /\ IF dragData.type = "multipleSeats"
       THEN LET ids == dragData.sourceSeats
                plan == CheckMultiDropTarget(seats, rows, cols, targetSeatId, ids)
            IN  /\ last' = Last("multiDrop", plan.ok, "", targetSeatId, ids)
                /\ lastPlan' = PlanCall("drop", plan, targetSeatId, ids,
                                        dragData.anchorSeatId)
                /\ IF plan.ok
                   THEN /\ history' = Record("seatArrangement")[1]
                        /\ historyIndex' = Record("seatArrangement")[2]
                        /\ seats' = MultiDropSeats(seats, plan, ids)
                        /\ selectedSeats' = <<>>
                        /\ students' = SyncStudentSeatIds(students, seats')
                   ELSE UNCHANGED <<history, historyIndex, seats, selectedSeats, students>>
       ELSE LET u == dragData.studentUuid
                ok == AssignAccepted(seats, students, u, targetSeatId)
            IN  /\ last' = Last("assign", ok, u, targetSeatId, <<>>)
                /\ IF ok
                   THEN /\ history' = Record("seatArrangement")[1]
                        /\ historyIndex' = Record("seatArrangement")[2]
                        /\ seats' = AssignSeats(seats, u, targetSeatId)
                        /\ students' = SyncStudentSeatIds(students, seats')
                   ELSE UNCHANGED <<history, historyIndex, seats, students>>
                /\ UNCHANGED <<selectedSeats, lastPlan>>
    /\ UNCHANGED <<rows, cols, nSel, returned>>
    /\ Ghosts
    /\ NoController

\* handleClassroomPointerCancel: cleanup
PointerCancel ==
    /\ dragData # NoDrag
    /\ nOps < MaxOps
    /\ nOps' = nOps + 1
    /\ dragData' = NoDrag
    /\ UNCHANGED <<rows, cols, seats, students, history, historyIndex, selectedSeats,
                   nSel, last, lastPlan, returned>>
    /\ Ghosts
    /\ NoController

\* selection, layout change and seat deletion between gestures
NextGesture ==
    \/ \E sid \in SeatIdInputs : dragData = NoDrag /\ CtrlClickSeat(sid)
    \/ \E l \in LayoutInputs : dragData = NoDrag /\ ApplyNewLayout(l[1], l[2])
    \/ \E sid \in SeatIdInputs : dragData = NoDrag /\ DeleteSeat(sid)
    \/ \E sid \in SeatIdInputs : SeatPointerDown(sid)
    \/ \E sid \in SeatIdInputs : DragOver(sid)
    \/ \E sid \in SeatIdInputs : PointerUpOnSeat(sid)
    \/ PointerCancel

SpecGesture == Init /\ [][NextGesture]_vars

\* ------------------------------------------------- the pointer controller
\* the handlers of DragDropManager event by event, with no assumption on the
\* order in which pointer events arrive; NoSeat as a target is the grid
\* area outside every seat element
PointerTargets == SeatIdInputs \cup {NoSeat}

\* the last pointer or key event: its name, whether it committed a move (for
\* a press: whether it started a box selection with no gesture in flight;
\* for a move of a box selection: whether no other press came since such a
\* start), the student and the seat of the release that ended a drag
Event(op, ok, u, sid) ==
    [Last(op, ok, u, sid, <<>>) EXCEPT !.preSeats = <<>>, !.prevOp = ""]

\* the seats a selection rectangle overlaps
BoxInputs ==
    { { SeatId(r, c) : r \in r1..r2, c \in c1..c2 } :
        r1 \in 0..(MaxRows - 1), r2 \in 0..(MaxRows - 1),
        c1 \in 0..(MaxCols - 1), c2 \in 0..(MaxCols - 1) }

\* endBoxSelection: the marked seat elements, in document order, are added
\* to the selection
RECURSIVE AddMarked(_, _, _, _)
AddMarked(sel, ss, marked, i) ==
    IF i > Len(ss) THEN sel
    ELSE AddMarked(IF ss[i].id \in marked THEN SetAdd(sel, ss[i].id) ELSE sel,
                   ss, marked, i + 1)

\* cleanup as it would be if it left the isSelecting flag alone
Cleanup_KeepsSelecting ==
    /\ dragData' = NoDrag
    /\ isDragging' = FALSE
    /\ isSelecting' = isSelecting
    /\ dragStartSelection' = <<>>

\* DragDropManager.cleanup (with cleanupDragState); no drag is in flight
\* afterwards
Cleanup ==
    /\ dragData' = NoDrag
    /\ isDragging' = FALSE
    /\ isSelecting' = FALSE
    /\ dragStartSelection' = <<>>

\* handleClassroomPointerDown: on a seat element handleSeatPointerDown, with
\* or without ctrl/cmd; elsewhere startBoxSelection (desktop)
HandlePointerDown(target, ctrl) ==
    /\ nOps < MaxOps
    /\ target # NoSeat => Rendered(seats, target)
    /\ target = NoSeat => ~ctrl
    /\ last' = Event("pointerDown",
                      target = NoSeat /\ ~isSelecting /\ ~isDragging /\ dragData = NoDrag,
                      "", NoSeat)
    /\ IF target = NoSeat
       THEN /\ selectedSeats' = <<>>
            /\ boxSeats' = {}
            /\ isSelecting' = TRUE
            /\ UNCHANGED <<dragData, isDragging, nSel>>
       ELSE IF ctrl
       THEN /\ nSel < MaxSelSteps
            /\ nSel' = nSel + 1
            /\ selectedSeats' = ToggleSeatSelection(selectedSeats, target, FALSE)
            /\ boxSeats' = {}
            /\ UNCHANGED <<dragData, isDragging, isSelecting>>
       ELSE /\ dragData' =
                 IF seats[FindSeatById(seats, target)].student = NoStudent THEN dragData
                 ELSE IF InSeq(selectedSeats, target)
                 THEN PrepareMultiSeatDrag(seats, selectedSeats, target)
                 ELSE PrepareSingleSeatDrag(seats, target)
            /\ UNCHANGED <<selectedSeats, boxSeats, isDragging, isSelecting, nSel>>
    /\ UNCHANGED <<rows, cols, seats, students, history, historyIndex, nOps, lastPlan,
                   returned, coordCall, dragStartSelection>>
    /\ Ghosts

\* the box selection as it would be if it marked deleted seats as well
HandleBoxMove_MarksDeleted(box) ==
    /\ nOps < MaxOps
    /\ isSelecting
    /\ last' = Event("pointerMove", last.ok /\ last.op \in {"pointerDown", "pointerMove"},
                      "", NoSeat)
    /\ boxSeats' = { sid \in box : FindSeatById(seats, sid) # 0 }
    /\ UNCHANGED <<rows, cols, seats, students, history, historyIndex, selectedSeats,
                   nOps, nSel, dragData, lastPlan, returned, isDragging, isSelecting,
                   coordCall, dragStartSelection>>
    /\ Ghosts

\* handleClassroomPointerMove while selecting: updateBoxSelection marks the
\* live seats the rectangle overlaps
HandleBoxMove(box) ==
    /\ nOps < MaxOps
    /\ isSelecting
    /\ last' = Event("pointerMove", last.ok /\ last.op \in {"pointerDown", "pointerMove"},
                      "", NoSeat)
    /\ boxSeats' = { sid \in box : Rendered(seats, sid) }
    /\ UNCHANGED <<rows, cols, seats, students, history, historyIndex, selectedSeats,
                   nOps, nSel, dragData, lastPlan, returned, isDragging, isSelecting,
                   coordCall, dragStartSelection>>
    /\ Ghosts

\* the distances <<deltaX, deltaY>> of a pointer position from the press
\* point: none, the threshold on both axes, one beyond it on either axis
DeltaInputs ==
    { <<0, 0>>, <<DRAG_THRESHOLD, DRAG_THRESHOLD>>,
      <<DRAG_THRESHOLD + 1, 0>>, <<0, DRAG_THRESHOLD + 1>> }

\* the threshold test as it would be if both axes had to exceed it
BeyondThreshold_BothAxes(deltaX, deltaY) ==
    deltaX > DRAG_THRESHOLD /\ deltaY > DRAG_THRESHOLD

\* the threshold test of handleClassroomPointerMove
BeyondThreshold(deltaX, deltaY) ==
    deltaX > DRAG_THRESHOLD \/ deltaY > DRAG_THRESHOLD

\* handleClassroomPointerMove with a payload, deltaX and deltaY away from the
\* press point: startDrag if not yet dragging and beyond the threshold, then,
\* while dragging, updateDrag, which only highlights (DragOver); the event
\* notes the two distances
HandleDragMove(deltaX, deltaY) ==
    /\ nOps < MaxOps
    /\ ~isSelecting
    /\ dragData # NoDrag
    /\ last' = [Event("pointerMove", TRUE, "", NoSeat) EXCEPT !.ids = <<deltaX, deltaY>>]
    /\ isDragging' = (isDragging \/ BeyondThreshold(deltaX, deltaY))
    /\ dragStartSelection' = IF isDragging' /\ ~isDragging THEN selectedSeats
                             ELSE dragStartSelection
    /\ UNCHANGED <<rows, cols, seats, students, history, historyIndex, selectedSeats,
                   nOps, nSel, dragData, lastPlan, returned, isSelecting, boxSeats,
                   coordCall>>
    /\ Ghosts

\* handleClassroomPointerUp: endBoxSelection while selecting, endDrag while
\* dragging, cleanup otherwise
HandlePointerUp(target) ==
    /\ nOps < MaxOps
    /\ target # NoSeat => Rendered(seats, target)
    /\ IF isSelecting
       THEN /\ boxSeats # {} => nSel < MaxSelSteps
            /\ nSel' = IF boxSeats # {} THEN nSel + 1 ELSE nSel
            /\ last' = Event("pointerUp", FALSE, "", NoSeat)
            /\ isSelecting' = FALSE
            /\ selectedSeats' = AddMarked(selectedSeats, seats, boxSeats, 1)
            /\ boxSeats' = {}
            /\ UNCHANGED <<seats, students, history, historyIndex, nOps, dragData,
                           isDragging, dragStartSelection>>
       ELSE IF ~isDragging
       THEN /\ last' = Event("pointerUp", FALSE, "", NoSeat)
            /\ Cleanup
            /\ UNCHANGED <<seats, students, history, historyIndex, selectedSeats, nOps,
                           nSel, boxSeats>>
       ELSE /\ nOps' = nOps + 1
            /\ Cleanup
            /\ UNCHANGED nSel
            /\ IF target = NoSeat
               THEN /\ last' = Event("pointerUp", FALSE, "", target)
                    /\ UNCHANGED <<seats, students, history, historyIndex, selectedSeats,
                                   boxSeats>>
               ELSE IF dragData.type = "multipleSeats"
               THEN LET ids == dragData.sourceSeats
                        plan == CheckMultiDropTarget(seats, rows, cols, target, ids)
                    IN  /\ last' = Event("pointerUp", plan.ok, "", target)
                        /\ IF plan.ok
                           THEN /\ history' = Record("seatArrangement")[1]
                                /\ historyIndex' = Record("seatArrangement")[2]
                                /\ seats' = MultiDropSeats(seats, plan, ids)
                                /\ selectedSeats' = <<>>
                                /\ boxSeats' = {}
                                /\ students' = SyncStudentSeatIds(students, seats')
                           ELSE UNCHANGED <<history, historyIndex, seats, selectedSeats,
                                            boxSeats, students>>
               ELSE LET u == dragData.studentUuid
                        ok == AssignAccepted(seats, students, u, target)
                    IN  /\ last' = Event("pointerUp", ok, u, target)
                        /\ IF ok
                           THEN /\ history' = Record("seatArrangement")[1]
                                /\ historyIndex' = Record("seatArrangement")[2]
                                /\ seats' = AssignSeats(seats, u, target)
                                /\ students' = SyncStudentSeatIds(students, seats')
                           ELSE UNCHANGED <<history, historyIndex, seats, students>>
                        /\ UNCHANGED <<selectedSeats, boxSeats>>
    /\ UNCHANGED <<rows, cols, lastPlan, returned, coordCall>>
    /\ Ghosts

\* handleClassroomPointerCancel
HandlePointerCancel ==
    /\ nOps < MaxOps
    /\ last' = Event("pointerCancel", TRUE, "", NoSeat)
    /\ Cleanup
    /\ UNCHANGED <<rows, cols, seats, students, history, historyIndex, selectedSeats,
                   nOps, nSel, lastPlan, returned, boxSeats, coordCall>>
    /\ Ghosts

\* the Escape key: clearSelection, cleanup, cleanupDragState; the event notes
\* whether a drag was in flight and the selection it found
EscapeKey ==
    /\ nOps < MaxOps
    /\ last' = [Event("escape", isDragging, "", NoSeat) EXCEPT !.ids = selectedSeats]
    /\ selectedSeats' = <<>>
    /\ boxSeats' = {}
    /\ Cleanup
    /\ UNCHANGED <<rows, cols, seats, students, history, historyIndex, nOps, nSel,
                   lastPlan, returned, coordCall>>
    /\ Ghosts

NextController ==
    \/ \E t \in PointerTargets, ctrl \in BOOLEAN : HandlePointerDown(t, ctrl)
    \/ \E box \in BoxInputs : HandleBoxMove(box)
    \/ \E d \in DeltaInputs : HandleDragMove(d[1], d[2])
    \/ \E t \in PointerTargets : HandlePointerUp(t)
    \/ HandlePointerCancel
    \/ EscapeKey

\* a stored session with the first student on the first seat and, in one
\* of the two cases, the second student next to them
InitPair ==
    \E f \in Seatings(MaxRows, MaxCols) :
        /\ f[1] = 1
        /\ \A k \in 3..(MaxRows * MaxCols) : f[k] = 0
        /\ InitApp(f)

SpecController == InitPair /\ [][NextController]_vars

\* the press with the operations that change the seats under a selection
NextPress ==
    \/ \E t \in PointerTargets, ctrl \in BOOLEAN : HandlePointerDown(t, ctrl)
    \/ \E l \in LayoutInputs : ApplyNewLayout(l[1], l[2])
    \/ \E sid \in SeatIdInputs : DeleteSeat(sid)

SpecPress == InitPair /\ [][NextPress]_vars

\* the box selection on a grid with a deleted seat
NextMarquee ==
    \/ \E t \in PointerTargets, ctrl \in BOOLEAN : HandlePointerDown(t, ctrl)
    \/ \E box \in BoxInputs : HandleBoxMove(box)
    \/ \E t \in PointerTargets : HandlePointerUp(t)

SpecMarquee == InitDeleted /\ [][NextMarquee]_vars

\* ------------------------------------------------------------ properties
Occupied(ss) == { i \in DOMAIN ss : ss[i].student # NoStudent }

SeatsHolding(ss, u) == { i \in Occupied(ss) : ss[i].student.uuid = u }

\* the seat the last operation found under an id, before it ran
PreSeat(sid) == last.preSeats[FindSeatById(last.preSeats, sid)]

\* C1: every student occupies at most one non-deleted seat
C1_AtMostOneSeat ==
    \A i, j \in Occupied(seats) :
        (i # j /\ ~seats[i].isDeleted /\ ~seats[j].isDeleted)
            => seats[i].student.uuid # seats[j].student.uuid

\* ---- the multi-seat move, stated over the seats before it ran
\* the offset of a move of the block ids onto the seat sid: drop target minus
\* the first selected seat
OffsetOf(ss, sid, ids) ==
    <<ss[FindSeatById(ss, sid)].row - ss[FindSeatById(ss, ids[1])].row,
      ss[FindSeatById(ss, sid)].col - ss[FindSeatById(ss, ids[1])].col>>

\* some translated coordinate is outside the grid, on no seat or on a deleted seat
TranslationInvalid(ss, rws, cls, sid, ids) ==
    \/ ids = <<>>
    \/ FindSeatById(ss, sid) = 0
    \/ FindSeatById(ss, ids[1]) = 0
    \/ \E k \in DOMAIN ids :
          /\ FindSeatById(ss, ids[k]) # 0
          /\ LET src == ss[FindSeatById(ss, ids[k])]
                 r == src.row + OffsetOf(ss, sid, ids)[1]
                 c == src.col + OffsetOf(ss, sid, ids)[2]
             IN  \/ r < 0 \/ r >= rws \/ c < 0 \/ c >= cls
                 \/ FindSeatAt(ss, r, c) = 0
                 \/ ss[FindSeatAt(ss, r, c)].isDeleted

\* C2: a multi-seat move with an invalid translated coordinate changes no
\* seat, records no history entry and keeps the selection
C2_RejectedMoveChangesNothing ==
    [][(last'.op = "multiDrop"
            /\ TranslationInvalid(seats, rows, cols, last'.seatId, last'.ids))
        => (/\ ~last'.ok
            /\ seats' = seats
            /\ history' = history
            /\ historyIndex' = historyIndex
            /\ selectedSeats' = selectedSeats)]_vars

\* a two-seat block was rejected although the drop target itself is a live seat
C2_Witness ==
    /\ last.op = "multiDrop"
    /\ ~last.ok
    /\ Len(last.ids) = 2
    /\ FindSeatById(seats, last.seatId) # 0
    /\ ~seats[FindSeatById(seats, last.seatId)].isDeleted
    /\ selectedSeats # <<>>
    /\ Occupied(seats) # {}

\* the seat index a selected seat of the last move was translated to
TargetOf(sid) ==
    FindSeatAt(last.preSeats,
               PreSeat(sid).row + OffsetOf(last.preSeats, last.seatId, last.ids)[1],
               PreSeat(sid).col + OffsetOf(last.preSeats, last.seatId, last.ids)[2])

MoveTargets == { TargetOf(last.ids[k]) : k \in DOMAIN last.ids }

\* D: the occupants of the target seats outside the selection, row-major
DisplacedOf ==
    SortRowCol(SelectSeq(last.preSeats,
        LAMBDA s : /\ FindSeatById(last.preSeats, s.id) \in MoveTargets
                   /\ ~InSeq(last.ids, s.id)
                   /\ s.student # NoStudent))

\* V: the selected seats that are no target and not deleted, row-major
VacatedOf ==
    SortRowCol(SelectSeq(last.preSeats,
        LAMBDA s : /\ InSeq(last.ids, s.id)
                   /\ FindSeatById(last.preSeats, s.id) \notin MoveTargets
                   /\ ~s.isDeleted))

\* C3: after an accepted multi-seat move the i-th displaced student sits in
\* the i-th vacated seat, and a displaced student beyond the vacated seats
\* sits nowhere and has an empty cached seat id
C3_DisplacedBackfilled ==
    (last.op = "multiDrop" /\ last.ok) =>
        \A i \in DOMAIN DisplacedOf :
            LET u == DisplacedOf[i].student.uuid
            IN  IF i <= Len(VacatedOf)
                THEN seats[FindSeatById(seats, VacatedOf[i].id)].student.uuid = u
                ELSE /\ SeatsHolding(seats, u) = {}
                     /\ u \in DOMAIN students => students[u] = NoSeat

\* C4: after an accepted multi-seat move every target seat holds what its
\* source seat held before the move
C4_TargetsHoldSources ==
    (last.op = "multiDrop" /\ last.ok) =>
        \A k \in DOMAIN last.ids :
            seats[TargetOf(last.ids[k])].student.uuid = PreSeat(last.ids[k]).student.uuid

\* ---- undo
SameOccupancy(a, b) ==
    /\ Len(a) = Len(b)
    /\ \A i \in DOMAIN a :
          /\ a[i].id = b[i].id
          /\ a[i].student.uuid = b[i].student.uuid
          /\ a[i].isDeleted = b[i].isDeleted

UndoableOps == {"assign", "remove", "deleteSeat", "multiDrop", "layout"}

\* C5: an undo right after an accepted assign, remove, seat deletion,
\* multi-seat move or layout change gives every seat the occupant and the
\* deleted flag it had just before that operation
C5_UndoRestores ==
    [][(last'.op = "undo" /\ last.op \in UndoableOps /\ last.ok)
        => SameOccupancy(seats', last.preSeats)]_vars

\* an undo took back a multi-seat move that had changed the seats
C5_Witness ==
    /\ last.op = "undo"
    /\ last.ok
    /\ last.prevOp = "multiDrop"
    /\ ~SameOccupancy(seats, last.preSeats)

\* ---- history
\* C6: after more than MAX_HISTORY_SIZE successive records the history is
\* exactly the newest MAX_HISTORY_SIZE snapshots; the following undos return
\* them newest first, and a further undo returns nothing and changes nothing
C6_NewestFiveKept ==
    Len(recLog) > MAX_HISTORY_SIZE =>
        /\ Len(history) = MAX_HISTORY_SIZE
        /\ \A k \in 1..MAX_HISTORY_SIZE :
              history[k].data = recLog[Len(recLog) - MAX_HISTORY_SIZE + k]
        /\ \A k \in DOMAIN undoLog :
              IF k <= MAX_HISTORY_SIZE
              THEN /\ undoLog[k] # NoEntry
                   /\ undoLog[k].data = recLog[Len(recLog) - k + 1]
              ELSE undoLog[k] = NoEntry
        /\ historyIndex = IF Len(undoLog) <= MAX_HISTORY_SIZE
                          THEN MAX_HISTORY_SIZE - 1 - Len(undoLog)
                          ELSE -1

\* six undos followed more than MAX_HISTORY_SIZE records of differing seatings
C6_Witness ==
    /\ Len(recLog) > MAX_HISTORY_SIZE
    /\ Len(undoLog) = MAX_HISTORY_SIZE + 1
    /\ recLog[Len(recLog)] # recLog[Len(recLog) - 1]
    /\ recLog[1] # recLog[Len(recLog) - MAX_HISTORY_SIZE + 1]

\* ---- assigning one student
SeatedUuids(ss) == { ss[i].student.uuid : i \in Occupied(ss) }

\* C7: assigning a roster student who sits in X to another live seat Y puts
\* the student in Y and Y's old occupant (or nothing) in X, changes no other
\* seat and no deleted flag, and leaves every seated student seated
C7_AssignSwaps ==
    [][(/\ last'.op = "assign"
        /\ last'.uuid \in DOMAIN students
        /\ FindSeatById(seats, last'.seatId) # 0
        /\ ~seats[FindSeatById(seats, last'.seatId)].isDeleted
        /\ SeatsHolding(seats, last'.uuid) # {}
        /\ FindSeatById(seats, last'.seatId) \notin SeatsHolding(seats, last'.uuid))
        => LET y == FindSeatById(seats, last'.seatId)
           IN  /\ Len(seats') = Len(seats)
               /\ seats'[y].student.uuid = last'.uuid
               /\ \A x \in SeatsHolding(seats, last'.uuid) :
                     seats'[x].student.uuid = seats[y].student.uuid
               /\ \A i \in DOMAIN seats :
                     /\ seats'[i].isDeleted = seats[i].isDeleted
                     /\ (i # y /\ i \notin SeatsHolding(seats, last'.uuid))
                            => seats'[i] = seats[i]
               /\ SeatedUuids(seats) \subseteq SeatedUuids(seats')]_vars

\* a seated student was assigned to a seat another student held
C7_Witness ==
    /\ last.op = "assign"
    /\ last.ok
    /\ SeatsHolding(last.preSeats, last.uuid) # {}
    /\ PreSeat(last.seatId).student # NoStudent
    /\ PreSeat(last.seatId).student.uuid # last.uuid
    /\ seats[FindSeatById(seats, last.seatId)].student.uuid = last.uuid

\* C8: an assign to a missing seat, to a deleted seat, of an unknown uuid or
\* of a student to the seat the student already holds changes no seat and
\* appends no history entry
C8_AssignNoOps ==
    [][(/\ last'.op = "assign"
        /\ \/ FindSeatById(seats, last'.seatId) = 0
           \/ seats[FindSeatById(seats, last'.seatId)].isDeleted
           \/ last'.uuid \notin DOMAIN students
           \/ FindSeatById(seats, last'.seatId) \in SeatsHolding(seats, last'.uuid))
        => (seats' = seats /\ history' = history /\ historyIndex' = historyIndex)]_vars

\* a roster student was assigned to a deleted seat and nothing changed
C8_Witness ==
    /\ last.op = "assign"
    /\ ~last.ok
    /\ last.uuid \in DOMAIN students
    /\ FindSeatById(seats, last.seatId) # 0
    /\ seats[FindSeatById(seats, last.seatId)].isDeleted
    /\ seats = last.preSeats

\* ---- cached seat ids and occupant references
\* C9: every roster student's cached seat id is the id of the seat holding
\* the student, and empty when no seat does
C9_CacheMatchesSeats ==
    \A u \in DOMAIN students :
        IF SeatsHolding(seats, u) = {}
        THEN students[u] = NoSeat
        ELSE \E i \in SeatsHolding(seats, u) : students[u] = seats[i].id

\* C10: after an undo restored a snapshot every occupied seat holds a student
\* of the roster
C10_RestoredOccupantsInRoster ==
    (last.op = "undo" /\ last.ok) =>
        \A i \in Occupied(seats) : seats[i].student.uuid \in DOMAIN students

\* ---- record, undo and redo of the history manager
\* C15: a record at pointer p drops every entry above p before it appends,
\* so the new entry is the last one, the pointer is on it and canRedo is false
C15_RecordDropsForward ==
    [][last'.op = "record"
        => LET cut == SubSeq(history, 1, historyIndex + 1)
               n == Len(history')
           IN  /\ n = IF Len(cut) + 1 > MAX_HISTORY_SIZE THEN MAX_HISTORY_SIZE
                      ELSE Len(cut) + 1
               /\ history'[n].data = DeepClone(seats)
               /\ SubSeq(history', 1, n - 1) = SubSeq(cut, Len(cut) - n + 2, Len(cut))
               /\ historyIndex' = n - 1
               /\ ~CanRedo(history', historyIndex')]_vars

\* a record followed an undo and entries below the pointer were kept
C15_Witness ==
    /\ last.op = "record"
    /\ last.prevOp = "undoCall"
    /\ Len(history) >= 2
    /\ Len(history) < MAX_HISTORY_SIZE

\* C16: redo steps the pointer up and returns the entry there when the pointer
\* is below the last entry, and else returns nothing and changes nothing; a
\* redo right after a successful undo returns the entry that undo returned
\* and puts the pointer back where it was before the undo
C16_RedoStepsForward ==
    [][last'.op = "redoCall"
        => /\ history' = history
           /\ IF historyIndex < Len(history) - 1
              THEN /\ historyIndex' = historyIndex + 1
                   /\ returned'.entry = history[historyIndex' + 1]
              ELSE /\ historyIndex' = historyIndex
                   /\ returned'.entry = NoEntry
           /\ (last.op = "undoCall" /\ last.ok)
                 => /\ returned'.entry = returned.entry
                    /\ returned'.entry # NoEntry
                    /\ historyIndex' = returned.from]_vars

\* a redo followed a successful undo below a newer, different entry
C16_Witness ==
    /\ last.op = "redoCall"
    /\ last.prevOp = "undoCall"
    /\ last.ok
    /\ returned.entry # NoEntry
    /\ historyIndex < Len(history) - 1
    /\ history[Len(history)] # returned.entry

\* C17: the history never holds more than MAX_HISTORY_SIZE entries and the
\* pointer stays between -1 and the last index; a push on a full history
\* evicts the oldest entry and sets the pointer to the last slot
C17_HistoryBounded ==
    /\ [](/\ Len(history) <= MAX_HISTORY_SIZE
          /\ historyIndex >= -1
          /\ historyIndex <= Len(history) - 1)
    /\ [][(last'.op = "record" /\ historyIndex + 1 = MAX_HISTORY_SIZE)
            => /\ history' = Append(Tail(history), Entry("seatArrangement", seats))
               /\ historyIndex' = MAX_HISTORY_SIZE - 1]_vars

\* a record on a full history evicted the oldest entry
C17_Witness ==
    /\ last.op = "record"
    /\ last.prevOp = "record"
    /\ Len(recLog) > MAX_HISTORY_SIZE
    /\ Len(history) = MAX_HISTORY_SIZE
    /\ historyIndex = MAX_HISTORY_SIZE - 1

\* ---- deleting a seat
\* C18: deleteSeat on an occupied seat changes no seat and appends no history
\* entry; on an empty live seat it sets the deleted flag of exactly that
\* seat, which stays in the collection
C18_DeleteSeat ==
    [][(last'.op = "deleteSeat" /\ FindSeatById(seats, last'.seatId) # 0)
        => LET t == FindSeatById(seats, last'.seatId)
           IN  IF seats[t].student # NoStudent
               THEN /\ seats' = seats
                    /\ history' = history
                    /\ historyIndex' = historyIndex
               ELSE ~seats[t].isDeleted
                       => /\ Len(seats') = Len(seats)
                          /\ seats'[t] = [seats[t] EXCEPT !.isDeleted = TRUE]
                          /\ \A i \in DOMAIN seats : i # t => seats'[i] = seats[i]]_vars

\* deleteSeat was refused on an occupied seat
C18_Witness ==
    /\ last.op = "deleteSeat"
    /\ ~last.ok
    /\ FindSeatById(seats, last.seatId) # 0
    /\ seats[FindSeatById(seats, last.seatId)].student # NoStudent
    /\ ~seats[FindSeatById(seats, last.seatId)].isDeleted
    /\ seats = last.preSeats

\* C19: deleteSeat on a seat that is already deleted changes neither the
\* seats nor the history entries nor the history pointer
C19_DeleteSeatIdempotent ==
    [][(/\ last'.op = "deleteSeat"
        /\ FindSeatById(seats, last'.seatId) # 0
        /\ seats[FindSeatById(seats, last'.seatId)].isDeleted)
        => (seats' = seats /\ history' = history /\ historyIndex' = historyIndex)]_vars

\* ---- history entries of the seat-changing operations
SeatChangingOps ==
    {"assign", "remove", "deleteSeat", "multiDrop", "clearSelectedSeats",
     "clearAllSeats", "deleteStudent", "clearAllStudents"}

\* C14: an operation that changes some seat's occupant or deleted flag
\* appends a history entry whose snapshot is the seat collection from just
\* before the change
C14_RecordedBeforeChange ==
    [][(last'.op \in SeatChangingOps /\ ~SameOccupancy(seats', seats))
        => /\ <<history', historyIndex'>> # <<history, historyIndex>>
           /\ Len(history') >= 1
           /\ historyIndex' = Len(history') - 1
           /\ SameOccupancy(history'[Len(history')].data, seats)]_vars

\* ---- the plan of a multi-seat move
PlanSeat(sid) == lastPlan.preSeats[FindSeatById(lastPlan.preSeats, sid)]

\* every selected id is a seat whose translation by the common offset is a
\* live seat inside the grid
AllTranslate ==
    /\ lastPlan.ids # <<>>
    /\ FindSeatById(lastPlan.preSeats, lastPlan.targetSeatId) # 0
    /\ \A k \in DOMAIN lastPlan.ids : FindSeatById(lastPlan.preSeats, lastPlan.ids[k]) # 0
    /\ ~TranslationInvalid(lastPlan.preSeats, lastPlan.rows, lastPlan.cols,
                           lastPlan.targetSeatId, lastPlan.ids)

\* C11: checkMultiDropTarget accepts exactly when every selected seat id,
\* translated by the common offset, is a live seat inside the grid, and an
\* accepted plan has one position per selected id, in order, with target
\* coordinate = source coordinate + offset
C11_PlanAcceptsIffAllTranslate ==
    lastPlan.call # "none" =>
        /\ lastPlan.ok <=> AllTranslate
        /\ lastPlan.ok =>
              /\ Len(lastPlan.positions) = Len(lastPlan.ids)
              /\ \A k \in DOMAIN lastPlan.positions :
                    LET p == lastPlan.positions[k]
                        off == OffsetOf(lastPlan.preSeats, lastPlan.targetSeatId,
                                        lastPlan.ids)
                    IN  /\ p.originalSeatId = lastPlan.ids[k]
                        /\ PlanSeat(p.targetSeatId).row = PlanSeat(p.originalSeatId).row + off[1]
                        /\ PlanSeat(p.targetSeatId).col = PlanSeat(p.originalSeatId).col + off[2]

\* C12: the offset of every position of an accepted plan is the drop target
\* minus the seat under the pointer at the start of the gesture
C12_OffsetFromAnchor ==
    (lastPlan.call # "none" /\ lastPlan.ok) =>
        \A k \in DOMAIN lastPlan.positions :
            LET p == lastPlan.positions[k]
            IN  /\ PlanSeat(p.targetSeatId).row - PlanSeat(p.originalSeatId).row
                     = PlanSeat(lastPlan.targetSeatId).row - PlanSeat(lastPlan.anchor).row
                /\ PlanSeat(p.targetSeatId).col - PlanSeat(p.originalSeatId).col
                     = PlanSeat(lastPlan.targetSeatId).col - PlanSeat(lastPlan.anchor).col

\* ---- bulk arrangements
BulkOps == {"random", "ruleBased", "aiArrangement"}

\* C13: an undo right after a random shuffle, a rule-based ordering (ticked
\* or fallen back to random) or an AI layout import gives every seat the
\* occupant and the deleted flag it had just before the arrangement started
C13_BulkUndoneByOneUndo ==
    [][(last'.op = "undo" /\ last.op \in BulkOps /\ last.ok)
        => SameOccupancy(seats', last.preSeats)]_vars

\* ---- deleted seats
\* C20: no seat whose deleted flag is set holds a student
C20_DeletedSeatEmpty ==
    \A i \in DOMAIN seats : seats[i].isDeleted => seats[i].student = NoStudent

\* a batch replace went through and filled a seat while another seat of its
\* selection had been deleted after it was selected
C20_Witness ==
    /\ last.op = "replace"
    /\ last.ok
    /\ \E k \in DOMAIN last.ids :
          /\ FindSeatById(seats, last.ids[k]) # 0
          /\ seats[FindSeatById(seats, last.ids[k])].isDeleted
    /\ seats # last.preSeats

\* ---- layout
\* C21: the seat collection holds one seat for each (row, col) of the
\* rows x cols grid, in row-major order, and each seat's id is the id of
\* its own coordinates
C21_SeatsMatchLayout ==
    /\ Len(seats) = rows * cols
    /\ \A k \in DOMAIN seats :
          /\ seats[k].row = (k - 1) \div cols
          /\ seats[k].col = (k - 1) % cols
          /\ seats[k].id = SeatId(seats[k].row, seats[k].col)

\* C23: right after a layout change the selection is empty
C23_LayoutClearsSelection ==
    last.op = "layout" => selectedSeats = <<>>

\* ---- selection
\* C22: right after toggleSeatSelection(seatId, true) the selection has no
\* member other than seatId
C22_ExclusiveToggleLeavesOnlySeat ==
    last.op = "toggleExclusive"
        => \A k \in DOMAIN selectedSeats : selectedSeats[k] = last.seatId

\* ---- displaced students of the multi-seat move
\* the plan of the last multi-seat move, its displacedStudents and its
\* availableSourceSeats, computed on the seats it started from
LastPlanOf == CheckMultiDropTarget(last.preSeats, rows, cols, last.seatId, last.ids)

LastDisplaced ==
    CollectScan([seats |-> last.preSeats, studentsToMove |-> <<>>,
                 displacedStudents |-> <<>>], LastPlanOf, last.ids, 1).displacedStudents

LastAvailable == AvailableSourceSeats(last.preSeats, LastPlanOf, last.ids)

AllSourcesLive ==
    \A k \in DOMAIN last.ids :
        /\ FindSeatById(last.preSeats, last.ids[k]) # 0
        /\ ~PreSeat(last.ids[k]).isDeleted

\* C24: after an accepted multi-seat move whose selected seats all exist and
\* are not deleted, the displaced students are no more than the vacated
\* source seats and each of them sits on a non-deleted seat
C24_DisplacedReseated ==
    (last.op = "multiDrop" /\ last.ok /\ AllSourcesLive) =>
        /\ Len(LastDisplaced) <= Len(LastAvailable)
        /\ \A i \in DOMAIN LastDisplaced :
              \E j \in SeatsHolding(seats, LastDisplaced[i].student.uuid) :
                  ~seats[j].isDeleted

\* a move of two live seats displaced two students
C24_Witness ==
    /\ last.op = "multiDrop"
    /\ last.ok
    /\ AllSourcesLive
    /\ Len(last.ids) = 2
    /\ Len(LastDisplaced) = 2

\* ---- remove
\* C25: removeStudentFromSeat on an occupied seat empties that seat and
\* leaves every other seat and every deleted flag as it was; on an empty or
\* missing seat it changes no seat and appends no history entry
C25_RemoveFrame ==
    [][last'.op = "remove"
        => LET t == FindSeatById(seats, last'.seatId)
           IN  IF t # 0 /\ seats[t].student # NoStudent
               THEN /\ Len(seats') = Len(seats)
                    /\ seats'[t].student = NoStudent
                    /\ seats'[t].isDeleted = seats[t].isDeleted
                    /\ \A i \in DOMAIN seats : i # t => seats'[i] = seats[i]
               ELSE /\ seats' = seats
                    /\ history' = history
                    /\ historyIndex' = historyIndex]_vars

\* a student was removed from a seat while another seat stayed occupied
C25_Witness ==
    /\ last.op = "remove"
    /\ last.ok
    /\ PreSeat(last.seatId).student # NoStudent
    /\ seats[FindSeatById(seats, last.seatId)].student = NoStudent
    /\ Occupied(seats) # {}

\* ---- display coordinates
\* the decimal numeral of n
RECURSIVE Numeral(_)
Numeral(n) ==
    IF n < 10 THEN <<Digits[n + 1]>> ELSE Numeral(n \div 10) \o <<Digits[(n % 10) + 1]>>

Repeat(ch, n) == [i \in 1..n |-> ch]

\* the display string of (displayRow, displayCol) with leading zeros and
\* surrounding blanks; three characters are the least a coordinate takes
PaddedDisplayStrings(displayRow, displayCol) ==
    { Repeat(" ", b1) \o Repeat("0", z1) \o Numeral(displayRow) \o <<"-">>
        \o Repeat("0", z2) \o Numeral(displayCol) \o Repeat(" ", b2) :
      b1 \in 0..(MaxCoordLen - 3), z1 \in 0..(MaxCoordLen - 3),
      z2 \in 0..(MaxCoordLen - 3), b2 \in 0..(MaxCoordLen - 3) }

\* C26: converting an in-grid (row, col) to display coordinates and back
\* gives (row, col), with displayRow = rows - row in 1..rows and
\* displayCol = col + 1 in 1..cols; parseDisplayCoordinate accepts a string
\* exactly when it is the display string of a seat of the grid, and then
\* returns that seat's coordinates and id
C26_CoordRoundTrip ==
    /\ coordCall.fn = "roundTrip" =>
          /\ coordCall.back = [internalRow |-> coordCall.row, internalCol |-> coordCall.col]
          /\ coordCall.display.displayRow = coordCall.rows - coordCall.row
          /\ coordCall.display.displayRow \in 1..coordCall.rows
          /\ coordCall.display.displayCol = coordCall.col + 1
          /\ coordCall.display.displayCol \in 1..coordCall.cols
    /\ coordCall.fn = "parse" =>
          /\ \A r \in 0..(coordCall.rows - 1), c \in 0..(coordCall.cols - 1) :
                coordCall.str \in PaddedDisplayStrings(coordCall.rows - r, c + 1)
                    => /\ coordCall.result # NoCoord
                       /\ coordCall.result.row = r
                       /\ coordCall.result.col = c
                       /\ coordCall.result.seatId = SeatId(r, c)
          /\ coordCall.result # NoCoord =>
                \E r \in 0..(coordCall.rows - 1), c \in 0..(coordCall.cols - 1) :
                    coordCall.str \in PaddedDisplayStrings(coordCall.rows - r, c + 1)

\* a blank-padded display string of the back row was parsed to its seat
C26_Witness ==
    /\ coordCall.fn = "parse"
    /\ coordCall.result # NoCoord
    /\ coordCall.str[1] = " "
    /\ coordCall.result.row = coordCall.rows - 1
    /\ coordCall.rows > 1


\* C27: a pointer-down that arrives while a drag or a box selection is in
\* flight is guarded: either nothing of the gesture changes (payload,
\* selection, flags), or the gesture is cancelled first, so that no drag is
\* in flight afterwards; a drag that stays in flight keeps its payload, and
\* no box selection starts while a drag is in flight
C27_PointerDownGuarded ==
    [][(last'.op = "pointerDown" /\ (isDragging \/ isSelecting)) =>
          /\ \/ /\ dragData' = dragData
                /\ selectedSeats' = selectedSeats
                /\ isDragging' = isDragging
                /\ isSelecting' = isSelecting
             \/ ~isDragging \/ ~isDragging'
          /\ (isDragging /\ isDragging') => dragData' = dragData
          /\ isDragging' => (isSelecting' => isSelecting)]_vars


\* ---- the release that ends a drag
\* the plan of the block in the payload for a release over the seat sid
DropPlan(sid) == CheckMultiDropTarget(seats, rows, cols, sid, dragData.sourceSeats)

\* this step is a pointer-up over a seat while a drag is in flight
ReleaseOverSeat ==
    /\ last'.op = "pointerUp"
    /\ isDragging /\ ~isSelecting
    /\ last'.seatId # NoSeat

\* ... over a valid target: any seat for a single payload, a seat whose plan
\* is accepted for a block
ValidRelease ==
    /\ ReleaseOverSeat
    /\ dragData.type = "multipleSeats" => DropPlan(last'.seatId).ok

\* ... of a single payload over the seat its student already occupies
OwnSeatRelease ==
    /\ ReleaseOverSeat
    /\ dragData.type = "singleSeat"
    /\ FindSeatById(seats, last'.seatId) \in SeatsHolding(seats, dragData.studentUuid)

\* the entries up to the pointer, without the oldest one when the history is full
KeptEntries ==
    LET kept == SubSeq(history, 1, historyIndex + 1)
    IN  IF Len(kept) >= MAX_HISTORY_SIZE THEN Tail(kept) ELSE kept

\* one entry with the seats before the move was appended, the payload was
\* moved onto the target, and every student's seat cache names the seat that
\* holds the student afterwards
RecordedMovedSynced ==
    /\ history' # <<>>
    /\ SubSeq(history', 1, Len(history') - 1) = KeptEntries
    /\ historyIndex' = Len(history') - 1
    /\ SameOccupancy(history'[Len(history')].data, seats)
    /\ IF dragData.type = "singleSeat"
       THEN FindSeatById(seats', last'.seatId) \in SeatsHolding(seats', dragData.studentUuid)
       ELSE \A k \in DOMAIN DropPlan(last'.seatId).positions :
               LET pos == DropPlan(last'.seatId).positions[k]
                   src == seats[FindSeatById(seats, pos.originalSeatId)]
               IN  src.student # NoStudent =>
                      FindSeatById(seats', pos.targetSeatId)
                          \in SeatsHolding(seats', src.student.uuid)
    /\ \A u \in DOMAIN students :
          IF SeatsHolding(seats', u) = {} THEN students'[u] = NoSeat
          ELSE students'[u] \in { seats'[j].id : j \in SeatsHolding(seats', u) }

\* C28 as stated: a pointer-up while dragging over a valid target appends
\* exactly one history entry holding the seats before the move, then moves
\* the single student or the block, then resyncs the students' seat caches
C28_ReleaseRecordsThenMoves ==
    [][ValidRelease => RecordedMovedSynced]_vars

\* C28 as amended: the same for every valid release except that of a single
\* payload over the seat its student already occupies, which records nothing
\* and changes nothing
C28_ReleaseElsewhereRecordsThenMoves ==
    [][/\ (ValidRelease /\ ~OwnSeatRelease) => RecordedMovedSynced
       /\ OwnSeatRelease => UNCHANGED <<seats, students, history, historyIndex>>]_vars

\* a block release was committed and moved the first student off the first seat
C28_Witness ==
    /\ last.op = "pointerUp" /\ last.ok /\ last.uuid = ""
    /\ historyIndex >= 0
    /\ 1 \notin SeatsHolding(seats, "A")
    /\ SeatsHolding(seats, "A") # {}


\* this step ends the drag in flight without a valid target: a pointer-up
\* over no seat or over a seat whose block plan is rejected, or a
\* pointer-cancel
DragEndsWithoutTarget ==
    /\ isDragging
    /\ \/ /\ last'.op = "pointerUp"
          /\ ~isSelecting
          /\ \/ last'.seatId = NoSeat
             \/ dragData.type = "multipleSeats" /\ ~DropPlan(last'.seatId).ok
       \/ last'.op = "pointerCancel"

\* C29: a drag that ends with a pointer-up over no valid target or with a
\* pointer-cancel changes no occupant, no deleted flag and no history entry,
\* and leaves the selection as it was when the drag started
C29_CancelledDragChangesNothing ==
    [][DragEndsWithoutTarget =>
          /\ SameOccupancy(seats', seats)
          /\ history' = history
          /\ historyIndex' = historyIndex
          /\ selectedSeats' = dragStartSelection]_vars


\* C30: whatever the controller is doing (nothing, a press, a drag, a box
\* selection), the Escape key leaves it idle: the selection is empty, the
\* payload is cleared, no drag and no box selection is in flight, and no
\* seat and no history entry has changed
C30_EscapeResets ==
    [][last'.op = "escape" =>
          /\ selectedSeats' = <<>>
          /\ dragData' = NoDrag
          /\ ~isDragging' /\ ~isSelecting'
          /\ SameOccupancy(seats', seats)
          /\ history' = history
          /\ historyIndex' = historyIndex]_vars

\* Escape was pressed during a drag with a non-empty selection
C30_Witness ==
    /\ last.op = "escape" /\ last.ok /\ last.ids # <<>>
    /\ selectedSeats = <<>> /\ dragData = NoDrag


\* ---- press, threshold and tap
\* C31: with a payload set and no drag in flight, a pointer-move starts the
\* drag exactly when it is more than 5 away from the press point on the
\* horizontal or on the vertical axis; a pointer-up with a payload and no
\* drag in flight (a tap) changes no seat, no history entry and no selection
C31_ThresholdStartsDrag ==
    [][/\ (last'.op = "pointerMove" /\ dragData # NoDrag /\ ~isSelecting /\ ~isDragging)
            => (isDragging' <=> (last'.ids[1] > 5 \/ last'.ids[2] > 5))
       /\ (last'.op = "pointerUp" /\ dragData # NoDrag /\ ~isSelecting /\ ~isDragging)
            => /\ SameOccupancy(seats', seats)
               /\ history' = history
               /\ historyIndex' = historyIndex
               /\ selectedSeats' = selectedSeats]_vars

\* a drag was started by a move of 6 on the vertical axis alone
C31_Witness ==
    /\ last.op = "pointerMove" /\ last.ids = <<0, 6>>
    /\ isDragging /\ dragData # NoDrag


\* the seat a payload was prepared on
PressedSeat(d) == IF d.type = "multipleSeats" THEN d.anchorSeatId ELSE d.sourceSeatId

SeqRange(q) == { q[k] : k \in DOMAIN q }

\* C32: a pointer-down that prepares a payload was made on an occupied,
\* non-deleted seat (a press on an empty or deleted seat prepares none) and
\* leaves the selection as it is; when the pressed seat is selected the
\* payload is a block whose source seats are exactly the selection, and
\* otherwise it is the single payload of that seat
C32_PressPreparesPayload ==
    [][(last'.op = "pointerDown" /\ dragData' # dragData) =>
          LET p == FindSeatById(seats, PressedSeat(dragData'))
          IN  /\ dragData' # NoDrag
              /\ p # 0
              /\ seats[p].student # NoStudent /\ ~seats[p].isDeleted
              /\ selectedSeats' = selectedSeats
              /\ IF InSeq(selectedSeats, seats[p].id)
                 THEN /\ dragData'.type = "multipleSeats"
                      /\ SeqRange(dragData'.sourceSeats) = SeqRange(selectedSeats)
                 ELSE /\ dragData'.type = "singleSeat"
                      /\ dragData'.studentUuid = seats[p].student.uuid]_vars


\* C33: a pointer-move of a drag, which previews the plan through
\* checkMultiDropTarget, changes no occupant and no deleted flag, no history
\* entry and not the history pointer, not the selection and not the payload
C33_PreviewChangesNothing ==
    [][(lastPlan' # lastPlan /\ lastPlan'.call = "preview") =>
          /\ SameOccupancy(seats', seats)
          /\ history' = history
          /\ historyIndex' = historyIndex
          /\ selectedSeats' = selectedSeats
          /\ dragData' = dragData]_vars

\* an accepted plan was previewed during a block drag, over another seat than
\* the anchor
C33_Witness ==
    /\ lastPlan.call = "preview" /\ lastPlan.ok
    /\ dragData # NoDrag /\ dragData.type = "multipleSeats"
    /\ lastPlan.targetSeatId # dragData.anchorSeatId
    /\ SameOccupancy(seats, lastPlan.preSeats)


\* ---- the box selection
\* this step is the pointer-up of a box selection that began with a press
\* on the empty grid area while no gesture was in flight and saw only moves
\* since
MarqueeRelease ==
    /\ last'.op = "pointerUp"
    /\ isSelecting
    /\ last.ok /\ last.op \in {"pointerDown", "pointerMove"}

\* C34: a box selection (press on the empty grid area, moves, release) ends
\* with every marked seat selected and with the selection equal to the set
\* of marked seats, since the press cleared it; only existing, non-deleted
\* seats are ever marked; no seat and no history entry changes
C34_MarqueeSelectsCandidates ==
    [][/\ (last'.op = "pointerDown" /\ last'.ok) => selectedSeats' = <<>>
       /\ (last'.op = "pointerMove" /\ isSelecting) =>
             /\ \A sid \in boxSeats' : Rendered(seats, sid)
             /\ SameOccupancy(seats', seats)
             /\ history' = history /\ historyIndex' = historyIndex
       /\ MarqueeRelease =>
             /\ \A sid \in boxSeats : InSeq(selectedSeats', sid)
             /\ SeqRange(selectedSeats') = boxSeats
             /\ SameOccupancy(seats', seats)
             /\ history' = history /\ historyIndex' = historyIndex]_vars

\* a box selection over the whole grid has ended: the three live seats are
\* selected
C34_Witness ==
    /\ last.op = "pointerUp" /\ ~isSelecting
    /\ Len(selectedSeats) = MaxRows * MaxCols - 1
    /\ historyIndex = -1


\* C35: after every pointer-up and every pointer-cancel the controller is
\* idle: no payload, no drag and no box selection in flight
C35_ReleaseLeavesIdle ==
    last.op \in {"pointerUp", "pointerCancel"} =>
        (dragData = NoDrag /\ ~isDragging /\ ~isSelecting)


\* C36: a release over a seat that leaves every occupant where it was, of a
\* single payload over its own seat or of a block over its own anchor,
\* appends no history entry and leaves the selection as it was
C36_IdleDropRecordsNothing ==
    [][(/\ ReleaseOverSeat
        /\ \/ OwnSeatRelease
           \/ dragData.type = "multipleSeats" /\ last'.seatId = dragData.anchorSeatId
        /\ SameOccupancy(seats', seats))
        => /\ history' = history
           /\ historyIndex' = historyIndex
           /\ selectedSeats' = selectedSeats]_vars


\* C37: every member of the selection is the id of a seat of the current
\* collection that is not deleted
C37_SelectionIsLive ==
    \A k \in DOMAIN selectedSeats : Rendered(seats, selectedSeats[k])


\* C38: canRedo is false after init, where canUndo is false as well, and it
\* becomes true only by an undo, so it is true only when an undo was made
\* since the last record
C38_RedoOnlyAfterUndo ==
    /\ ~CanRedo(history, historyIndex) /\ ~CanUndo(historyIndex)
    /\ [][(CanRedo(history', historyIndex') /\ ~CanRedo(history, historyIndex))
            => (last'.op = "undoCall" /\ last'.ok)]_vars


\* ---- seat rotation
\* the seat shares its row (for a row rotation) or its col with seat i
SameLine(ss, i, j, op) ==
    IF op \in {"rowLeft", "rowRight"} THEN ss[j].row = ss[i].row ELSE ss[j].col = ss[i].col

\* C39: a rotation changes no deleted seat and no deleted flag, every
\* student it leaves on a seat sat on a non-deleted seat of the same row (of
\* the same col) before, the seated students are the same and as many seats
\* are occupied, and rowRight after rowLeft, like colBackward after
\* colForward, gives every seat the occupant it had before the two
C39_RotationPermutesLines ==
    [][last'.op \in RotateDirections =>
          /\ Len(seats') = Len(seats)
          /\ \A i \in DOMAIN seats :
                /\ seats'[i].id = seats[i].id
                /\ seats'[i].isDeleted = seats[i].isDeleted
                /\ seats[i].isDeleted => seats'[i].student = seats[i].student
                /\ seats'[i].student # NoStudent =>
                      \E j \in DOMAIN seats :
                         /\ ~seats[j].isDeleted
                         /\ SameLine(seats, i, j, last'.op)
                         /\ seats[j].student # NoStudent
                         /\ seats[j].student.uuid = seats'[i].student.uuid
          /\ SeatedUuids(seats') = SeatedUuids(seats)
          /\ Cardinality(Occupied(seats')) = Cardinality(Occupied(seats))
          /\ (last.op = "rowLeft" /\ last'.op = "rowRight")
                => SameOccupancy(seats', last.preSeats)
          /\ (last.op = "colForward" /\ last'.op = "colBackward")
                => SameOccupancy(seats', last.preSeats)]_vars

\* rowRight followed rowLeft on a grid whose middle seat is deleted, and it
\* moved a student
C39_Witness ==
    /\ last.op = "rowRight" /\ last.prevOp = "rowLeft"
    /\ \E i \in DOMAIN seats : seats[i].isDeleted
    /\ ~SameOccupancy(seats, last.preSeats)

====
